---- MODULE Spec2Model ----
(***************************************************************************)
(* StoreScout: the analytics core of app/services/analyze.py.              *)
(*                                                                         *)
(* Representation                                                          *)
(*   Optional[x]   : <<>> is None, <<v>> is the value v.                   *)
(*   instants      : integer seconds on the UTC time line.                 *)
(*   money         : integer cents (a float price of 12.50 is 1250).       *)
(*   percentages   : integers scaled by the number of decimals the code    *)
(*                   rounds to: round(x, 2) is held in hundredths,         *)
(*                   round(x, 1) in tenths.  Python's round() is modelled  *)
(*                   as round-half-even of the exact quotient.             *)
(***************************************************************************)
EXTENDS Integers, Sequences, FiniteSets

VARIABLES
    products,   \* the Record Set handed to the core (sequence of records)
    now,        \* the wall clock (datetime.now(timezone.utc)), in seconds
    report,     \* outcome of the last analyze_products call
    prev,       \* outcome of the analyze_products call before that
    runs,       \* number of analyze_products calls on this Record Set
    pack,       \* outcome of the last compute_new_vs_old_and_updates call
    call,       \* last direct call of a pure helper: [fn, args, ret]
    gen         \* the /generate request in progress (main.py, fetch.py)

vars == <<products, now, report, prev, runs, pack, call, gen>>

----------------------------------------------------------------------------
(* Generic helpers *)

None == <<>>
Some(x) == <<x>>
IsNone(o) == o = <<>>
Val(o) == o[1]

Range(s) == {s[i] : i \in DOMAIN s}

\* F applied to the value of v, with v computed once.
Once(v, F(_)) == CHOOSE r \in {F(x) : x \in {v}} : TRUE

Max2(a, b) == IF a >= b THEN a ELSE b
Min2(a, b) == IF a <= b THEN a ELSE b
Abs(x) == IF x < 0 THEN -x ELSE x

\* Number of indices of s that satisfy Test.
Count(s, Test(_)) == Cardinality({i \in DOMAIN s : Test(s[i])})

\* The subsequence of s whose elements satisfy Test, order kept
\* (a Python list comprehension with a filter).
Filter(s, Test(_)) == SelectSeq(s, Test)

\* k copies of x.
Repeat(x, k) == [i \in 1..k |-> x]

\* round(n / d, .) for d > 0 where n and d are already scaled integers:
\* the nearest integer to n/d, ties to the even neighbour.
RoundDiv(n, d) ==
    LET q == n \div d
        r == n % d
    IN  IF 2 * r > d THEN q + 1
        ELSE IF 2 * r < d THEN q
        ELSE IF q % 2 = 0 THEN q ELSE q + 1

\* The k-th smallest element (1-based) of a non-empty sequence of integers.
Kth(s, k) ==
    CHOOSE v \in Range(s) :
        /\ Cardinality({i \in DOMAIN s : s[i] < v}) < k
        /\ Cardinality({i \in DOMAIN s : s[i] <= v}) >= k

\* statistics.median, doubled so that it stays an integer:
\* Median2(s) = 2 * median(s), for non-empty s.
Median2(s) ==
    LET n == Len(s)
    IN  IF n % 2 = 1 THEN 2 * Kth(s, (n + 1) \div 2)
        ELSE Kth(s, n \div 2) + Kth(s, n \div 2 + 1)

----------------------------------------------------------------------------
(* Time *)

DAY == 24 * 3600
GRACE_SECONDS == 6 * 3600

\* timedelta(days = n)
Days(n) == n * DAY

\* strftime("%Y-%m-%d") of a UTC instant: the calendar day, as its number.
bucket_day(t) == t \div DAY

----------------------------------------------------------------------------
(* Field values of a normalized product record *)

\* A timestamp field: absent, an empty string, a string that
\* datetime.fromisoformat rejects, or an ISO-8601 string with a "Z" suffix,
\* without zone (naive), or with a numeric UTC offset.  wall is the
\* wall-clock reading written in the string, off the offset in seconds.
TsNone == [form |-> "none", wall |-> 0, off |-> 0]
TsEmpty == [form |-> "empty", wall |-> 0, off |-> 0]
TsJunk == [form |-> "junk", wall |-> 0, off |-> 0]
TsZ(t) == [form |-> "z", wall |-> t, off |-> 0]
TsNaive(t) == [form |-> "naive", wall |-> t, off |-> 0]
TsOffset(w, o) == [form |-> "offset", wall |-> w, off |-> o]

\* A price field: absent, a number, a numeric string, or a string float()
\* rejects.  cents is the amount.
PrNone == [kind |-> "none", cents |-> 0]
PrNum(c) == [kind |-> "num", cents |-> c]
PrStr(c) == [kind |-> "str", cents |-> c]
PrJunk == [kind |-> "junk", cents |-> 0]

\* parse_dt: None for a missing, empty or unparsable string; otherwise the
\* instant in UTC (a "Z" suffix and a naive string are read as UTC, an
\* offset is subtracted by astimezone).
parse_dt(s) ==
    IF s.form \in {"none", "empty", "junk"} THEN None
    ELSE IF s.form = "offset" THEN Some(s.wall - s.off)
    ELSE Some(s.wall)

\* safe_float: None for None and for what float() rejects.
safe_float(x) ==
    IF x.kind \in {"num", "str"} THEN Some(x.cents) ELSE None

pct_Unscaled(n, d) == IF d # 0 THEN RoundDiv(1000000 * n, d) ELSE 0

\* pct(n, d) = round(n / d * 100, 2) if d else 0.0   (hundredths of a percent)
pct(n, d) == IF d # 0 THEN RoundDiv(10000 * n, d) ELSE 0

\* median_or_none: round(median(xs), 2) over the non-None entries (cents).
median_or_none(xs) ==
    LET ys == Filter(xs, LAMBDA o : ~IsNone(o))
        vs == [i \in DOMAIN ys |-> Val(ys[i])]
    IN  IF vs = <<>> THEN None ELSE Some(RoundDiv(Median2(vs), 2))

\* "a or b" on two Optional datetimes (a datetime is never falsy).
OrElse(a, b) == IF IsNone(a) THEN b ELSE a

----------------------------------------------------------------------------
(* compute_discount_pct *)

\* round((compare_at_min - price_min) / compare_at_min * 100, 2), in
\* hundredths of a percent; None unless both values are present and
\* compare_at_min > price_min and compare_at_min > 0.
compute_discount_pct(price_min, compare_at_min) ==
    IF IsNone(price_min) \/ IsNone(compare_at_min) THEN None
    ELSE IF Val(compare_at_min) > Val(price_min) /\ Val(compare_at_min) > 0
         THEN Some(RoundDiv(10000 * (Val(compare_at_min) - Val(price_min)),
                            Val(compare_at_min)))
         ELSE None

----------------------------------------------------------------------------
(* detect_bulk_update_spike *)

BULK_PCT_THRESHOLD == 700
BULK_MIN_UPDATES == 30
BULK_MIN_ORGANIC == 10

\* Counter(buckets)[d]
BucketCount(update_datetimes, d) ==
    Cardinality({i \in DOMAIN update_datetimes :
                    bucket_day(update_datetimes[i]) = d})

\* Counter(buckets).most_common(1)[0][0]: the bucket with the largest
\* count; among equal counts the one inserted first.
TopBucket(update_datetimes) ==
    LET days == {bucket_day(update_datetimes[i]) : i \in DOMAIN update_datetimes}
        first(d) == CHOOSE i \in DOMAIN update_datetimes :
                        /\ bucket_day(update_datetimes[i]) = d
                        /\ \A j \in 1..(i - 1) :
                               bucket_day(update_datetimes[j]) # d
        counts == [d \in days |-> BucketCount(update_datetimes, d)]
    IN  CHOOSE d \in days : \A e \in days :
            \/ counts[d] > counts[e]
            \/ counts[d] = counts[e] /\ first(d) <= first(e)

IsBulk_AnySampleSize(dominant_pct, n) == dominant_pct >= BULK_PCT_THRESHOLD

\* is_bulk = dominant_pct >= 70.0 and len(update_datetimes) >= 30
IsBulk(dominant_pct, n) ==
    dominant_pct >= BULK_PCT_THRESHOLD /\ n >= BULK_MIN_UPDATES

\* Returns (is_bulk, dominant_bucket_label, dominant_pct); dominant_pct is
\* round(100.0 * top_count / len, 1), in tenths of a percent.
detect_bulk_update_spike(update_datetimes) ==
    IF update_datetimes = <<>>
    THEN [is_bulk |-> FALSE, top_bucket |-> None, dominant_pct |-> 0]
    ELSE LET top_bucket == TopBucket(update_datetimes)
             top_count == BucketCount(update_datetimes, top_bucket)
             dominant_pct == RoundDiv(1000 * top_count, Len(update_datetimes))
         IN  [is_bulk |-> IsBulk(dominant_pct, Len(update_datetimes)),
              top_bucket |-> Some(top_bucket),
              dominant_pct |-> dominant_pct]

----------------------------------------------------------------------------
(* compute_new_vs_old_and_updates *)

\* created_at preferred, fallback published_at
created_dt(p) == OrElse(parse_dt(p.created_at), parse_dt(p.published_at))

updated_dt(p) == parse_dt(p.updated_at)

meaningful_update_dt_ExclusiveGrace(p) ==
    LET ud == updated_dt(p)
        cd == created_dt(p)
    IN  IF IsNone(ud) THEN None
        ELSE IF ~IsNone(cd) /\ Abs(Val(ud) - Val(cd)) < GRACE_SECONDS THEN None
        ELSE ud

\* "updated ~= created" is noise: None when there is no update instant or
\* when it lies within GRACE_SECONDS of the creation instant.
meaningful_update_dt(p) ==
    LET ud == updated_dt(p)
        cd == created_dt(p)
    IN  IF IsNone(ud) THEN None
        ELSE IF ~IsNone(cd) /\ Abs(Val(ud) - Val(cd)) <= GRACE_SECONDS THEN None
        ELSE ud

\* The values of the non-None entries of a sequence of Optionals.
Present(opts) ==
    LET ys == Filter(opts, LAMBDA o : ~IsNone(o))
    IN  [i \in DOMAIN ys |-> Val(ys[i])]

\* meaningful_updates: one instant per product that has a meaningful update.
MeaningfulUpdates(ps) ==
    Present([i \in DOMAIN ps |-> meaningful_update_dt(ps[i])])

KeepCandidate_MoreThanTen(candidate) == Len(candidate) > BULK_MIN_ORGANIC

KeepCandidate_NineSuffice(candidate) == Len(candidate) >= BULK_MIN_ORGANIC - 1

\* The candidate organic set keeps the meaningful updates only if it
\* retains at least 10 of them.
KeepCandidate(candidate) == Len(candidate) >= BULK_MIN_ORGANIC

\* Organic updates: the dominant bucket is excluded if a bulk spike was
\* detected and the rest is not (nearly) empty.
OrganicUpdates(meaningful_updates) ==
    LET spike == detect_bulk_update_spike(meaningful_updates)
        candidate == Filter(meaningful_updates,
                        LAMBDA d : Some(bucket_day(d)) # spike.top_bucket)
    IN  IF spike.is_bulk /\ ~IsNone(spike.top_bucket) /\ KeepCandidate(candidate)
        THEN [filtered_updates |-> candidate, bulk_filter_applied |-> TRUE]
        ELSE [filtered_updates |-> meaningful_updates,
              bulk_filter_applied |-> FALSE]

\* sum(1 for d in dts if d >= cutoff)
CountSince(dts, cutoff) == Count(dts, LAMBDA d : d >= cutoff)

\* created_groups[k]: the products created on or after the cutoff.
CreatedGroup(ps, cutoff) ==
    Filter(ps, LAMBDA p : ~IsNone(created_dt(p)) /\ Val(created_dt(p)) >= cutoff)

PricesOf(ps) == [i \in DOMAIN ps |-> safe_float(ps[i].price_min)]

compute_new_vs_old_and_updates(ps, clock) ==
    LET total == Len(ps)
        cut(k) == clock - Days(k)
        meaningful_updates == MeaningfulUpdates(ps)
        spike == detect_bulk_update_spike(meaningful_updates)
        organic == OrganicUpdates(meaningful_updates)
        filtered_updates == organic.filtered_updates
        windows == {30, 90, 180}
        created == [k \in windows |-> Len(CreatedGroup(ps, cut(k)))]
        upd == [k \in windows |-> CountSince(filtered_updates, cut(k))]
        raw == [k \in windows |-> CountSince(meaningful_updates, cut(k))]
    IN  IF total = 0 THEN [kind |-> "empty"]
        ELSE [kind |-> "full",
              new_vs_old |-> [
                  created_30 |-> created[30],
                  created_90 |-> created[90],
                  created_180 |-> created[180],
                  created_30_pct |-> pct(created[30], total),
                  created_90_pct |-> pct(created[90], total),
                  created_180_pct |-> pct(created[180], total),
                  catalog_median_price |-> median_or_none(PricesOf(ps)),
                  new_90_median_price |->
                      median_or_none(PricesOf(CreatedGroup(ps, cut(90))))],
              update_activity |-> [
                  updated_30 |-> upd[30],
                  updated_90 |-> upd[90],
                  updated_180 |-> upd[180],
                  updated_30_pct |-> pct(upd[30], total),
                  updated_90_pct |-> pct(upd[90], total),
                  updated_180_pct |-> pct(upd[180], total),
                  updated_30_raw |-> raw[30],
                  updated_90_raw |-> raw[90],
                  updated_180_raw |-> raw[180],
                  updated_30_raw_pct |-> pct(raw[30], total),
                  updated_90_raw_pct |-> pct(raw[90], total),
                  updated_180_raw_pct |-> pct(raw[180], total),
                  meaningful_update_count |-> Len(meaningful_updates),
                  organic_update_count |-> Len(filtered_updates),
                  bulk_update_flag |-> spike.is_bulk,
                  bulk_update_bucket |-> spike.top_bucket,
                  bulk_update_dominant_pct |-> spike.dominant_pct,
                  bulk_filter_applied |-> organic.bulk_filter_applied]]

----------------------------------------------------------------------------
(* Sorting and counting as Python does them *)

\* The indices 1..n in the order sorted() gives them, where Before(j, i)
\* says that element j is placed ahead of element i.  Before must order
\* every two distinct indices (the callers break ties by index: Python's
\* sort is stable, also with reverse=True).
SortedIdx(n, Before(_, _)) ==
    [k \in 1..n |->
        CHOOSE i \in 1..n : Cardinality({j \in 1..n : Before(j, i)}) = k - 1]

\* s[:n]
Take(s, n) == SubSeq(s, 1, Min2(n, Len(s)))

MostCommon_LastInsertedFirst(keys, n) ==
    LET ks == Range(keys)
        cnt(k) == Cardinality({i \in DOMAIN keys : keys[i] = k})
        first(k) == CHOOSE i \in DOMAIN keys :
                        keys[i] = k /\ \A j \in 1..(i - 1) : keys[j] # k
        ahead(a, b) == cnt(a) > cnt(b) \/ (cnt(a) = cnt(b) /\ first(a) > first(b))
        m == Cardinality(ks)
        ordered == [r \in 1..m |->
                      CHOOSE k \in ks :
                          Cardinality({a \in ks : ahead(a, k)}) = r - 1]
    IN  Take([r \in 1..m |-> [key |-> ordered[r], count |-> cnt(ordered[r])]], n)

\* Counter(keys).most_common(n) for a sequence of keys: the distinct keys
\* with their counts, the largest count first, equal counts in the order
\* of first insertion; at most n of them.
MostCommon(keys, n) ==
    LET ks == Range(keys)
        cnt(k) == Cardinality({i \in DOMAIN keys : keys[i] = k})
        first(k) == CHOOSE i \in DOMAIN keys :
                        keys[i] = k /\ \A j \in 1..(i - 1) : keys[j] # k
        ahead(a, b) == cnt(a) > cnt(b) \/ (cnt(a) = cnt(b) /\ first(a) < first(b))
        m == Cardinality(ks)
        ordered == [r \in 1..m |->
                      CHOOSE k \in ks :
                          Cardinality({a \in ks : ahead(a, k)}) = r - 1]
    IN  Take([r \in 1..m |-> [key |-> ordered[r], count |-> cnt(ordered[r])]], n)

----------------------------------------------------------------------------
(* Calendar: instant 0 is 2025-01-01T00:00:00Z; the model's instants stay *)
(* within 2025..2027, three years without a leap day.                     *)

MonthStart == <<0, 31, 59, 90, 120, 151, 181, 212, 243, 273, 304, 334>>

\* strftime("%Y-%m"): the calendar month, numbered from January 2025 = 0.
month_key(t) ==
    LET d == bucket_day(t)
        y == d \div 365
        doy == d % 365
        m == Cardinality({k \in 1..12 : MonthStart[k] <= doy})
    IN  12 * y + (m - 1)

----------------------------------------------------------------------------
(* analyze_launch_timeline *)

ACCEL_BAND == 150
NO_DATES_ERROR == "No products have created_at/published_at dates"

\* calc_velocity: products per 30-day month, round(count / (days / 30), 1),
\* in tenths.
calc_velocity(days, count) ==
    IF days = 0 THEN 0 ELSE RoundDiv(10 * count * 30, days)

\* Percentage change of the 30-day velocity against the 90-day velocity,
\* round(., 1) in tenths; None when the 90-day velocity is zero.
Acceleration(v30, v90) ==
    IF v90 > 0 THEN Some(RoundDiv(1000 * (v30 - v90), v90)) ELSE None

\* delta_pct of analyze_launch_timeline: round((new - cat) / cat * 100, 1),
\* in tenths.
launch_delta_pct(new_val, catalog_val) ==
    IF IsNone(new_val) \/ IsNone(catalog_val) \/ catalog_val = Some(0) THEN None
    ELSE Some(RoundDiv(1000 * (Val(new_val) - Val(catalog_val)), Val(catalog_val)))

\* "Accelerating" / "Decelerating" / "Steady" (and the price strategy
\* labels): x and x > 15, x and x < -15, else the middle label.
BandLabel(x, up, down, mid) ==
    IF ~IsNone(x) /\ Val(x) # 0 /\ Val(x) > ACCEL_BAND THEN up
    ELSE IF ~IsNone(x) /\ Val(x) # 0 /\ Val(x) < -ACCEL_BAND THEN down
    ELSE mid

\* round(median(xs), 2) if xs else None, for a sequence of cents.
RoundedMedian(xs) == IF xs = <<>> THEN None ELSE Some(RoundDiv(Median2(xs), 2))

\* [x for x in prices if x is not None and x > 0]
PositivePrices(ps) ==
    Present(Filter(PricesOf(ps), LAMBDA o : ~IsNone(o) /\ Val(o) > 0))

\* dated_products, sorted by creation instant (stable): the products that
\* have a creation instant.
DatedProducts(ps) ==
    LET dated == Filter(ps, LAMBDA p : ~IsNone(created_dt(p)))
        created(i) == Val(created_dt(dated[i]))
        order == SortedIdx(Len(dated),
                    LAMBDA j, i : created(j) < created(i)
                                  \/ (created(j) = created(i) /\ j < i))
    IN  [k \in DOMAIN order |-> dated[order[k]]]

LaunchGroup_Before(dated, cutoff) ==
    Filter(dated, LAMBDA p : Val(created_dt(p)) <= cutoff)

\* launch_groups[label]
LaunchGroup(dated, cutoff) ==
    Filter(dated, LAMBDA p : Val(created_dt(p)) >= cutoff)

analyze_launch_timeline(ps, clock) ==
    Once(DatedProducts(ps), LAMBDA dated :
    LET total == Len(ps)
        cut(k) == clock - Days(k)
        group(k) == LaunchGroup(dated, cut(k))
        cnt(k) == Len(group(k))
        launch(k) == [count |-> cnt(k), pct |-> pct(cnt(k), total)]
        v30 == calc_velocity(30, cnt(30))
        v90 == calc_velocity(90, cnt(90))
        v1y == calc_velocity(365, cnt(365))
        accel == Acceleration(v30, v90)
        catalog_median == RoundedMedian(PositivePrices(ps))
        new_30d_median == RoundedMedian(PositivePrices(group(30)))
        new_90d_median == RoundedMedian(PositivePrices(group(90)))
        delta_30d == launch_delta_pct(new_30d_median, catalog_median)
        delta_90d == launch_delta_pct(new_90d_median, catalog_median)
        year == group(365)
        months == [i \in DOMAIN year |-> month_key(Val(created_dt(year[i])))]
        vendors90 == [i \in DOMAIN group(90) |-> group(90)[i].vendor]
        top_vendors == MostCommon(vendors90, 3)
        edge(p) == [title |-> p.title,
                    created |-> bucket_day(Val(created_dt(p))),
                    age_days |-> (clock - Val(created_dt(p))) \div DAY]
    IN  IF total = 0 THEN [kind |-> "empty"]
        ELSE IF dated = <<>> THEN [kind |-> "error", error |-> NO_DATES_ERROR]
        ELSE [kind |-> "full",
              launch_counts |-> [d7 |-> launch(7), d30 |-> launch(30),
                                 d90 |-> launch(90), d180 |-> launch(180),
                                 y1 |-> launch(365)],
              velocity |-> [last_30d |-> v30, last_90d |-> v90, last_1yr |-> v1y],
              acceleration |-> [
                  pct_30d_vs_90d |-> accel,
                  trend |-> BandLabel(accel, "Accelerating", "Decelerating", "Steady")],
              price_positioning |-> [
                  catalog_median |-> catalog_median,
                  new_30d_median |-> new_30d_median,
                  new_90d_median |-> new_90d_median,
                  delta_30d_pct |-> delta_30d,
                  delta_90d_pct |-> delta_90d,
                  strategy |-> BandLabel(delta_90d, "Premium expansion",
                                         "Budget expansion", "Consistent positioning")],
              monthly_distribution |-> [
                  counts |-> {<<c.key, c.count>> :
                                 c \in Range(MostCommon(months, Len(months)))},
                  peak_months |-> MostCommon(months, 3)],
              new_product_vendors |-> [
                  top_3 |-> [i \in DOMAIN top_vendors |->
                                [vendor |-> top_vendors[i].key,
                                 count |-> top_vendors[i].count,
                                 pct |-> pct(top_vendors[i].count, cnt(90))]]],
              oldest_product |-> edge(dated[1]),
              newest_product |-> edge(dated[Len(dated)])])

----------------------------------------------------------------------------
(* analyze_products *)

TOP_N == 10

\* bool(p.get("available")): the field is True, False or missing (None).
Truthy(available) == available = "true"

\* sorted() on datetime keys: parse_dt gives timezone-aware instants and the
\* fallback datetime.min is naive; Python refuses to order an aware and a
\* naive datetime (TypeError), so the sort raises exactly when both kinds
\* of key occur.
SortRaises(keys) ==
    \E i, j \in DOMAIN keys : IsNone(keys[i]) /\ ~IsNone(keys[j])

\* sorted(xs, key = ..., reverse = True) on Optional instants that are all
\* of one kind: largest first, equal keys in the original order.
SortedByDtDesc(keys) ==
    LET k(i) == IF IsNone(keys[i]) THEN 0 ELSE Val(keys[i])
    IN  SortedIdx(Len(keys), LAMBDA j, i : k(j) > k(i) \/ (k(j) = k(i) /\ j < i))

\* sorted(xs, key = (present, value), reverse = True) on tuple keys.
SortedByPairDesc(keys) ==
    LET gt(a, b) == a[1] > b[1] \/ (a[1] = b[1] /\ a[2] > b[2])
    IN  SortedIdx(Len(keys),
            LAMBDA j, i : gt(keys[j], keys[i]) \/ (keys[j] = keys[i] /\ j < i))

\* newest_dt(p) = created instant or datetime.min (None here)
newest_dt(p) == created_dt(p)

\* (v is not None, v or -1): a zero price is falsy and ranks as -1.
expensive_key(p) ==
    LET v == safe_float(p.price_min)
    IN  <<IF IsNone(v) THEN 0 ELSE 1,
          IF IsNone(v) \/ v = Some(0) THEN -100 ELSE Val(v)>>

\* (d is not None, d or -1)
discount_key(p) ==
    LET d == compute_discount_pct(safe_float(p.price_min),
                                  safe_float(p.compare_at_min))
    IN  <<IF IsNone(d) THEN 0 ELSE 1,
          IF IsNone(d) \/ d = Some(0) THEN -100 ELSE Val(d)>>

\* compact(p): the projection of a record shown in the lists.
compact(p) ==
    [title |-> p.title,
     price_min |-> safe_float(p.price_min),
     compare_at_min |-> safe_float(p.compare_at_min),
     available |-> Truthy(p.available),
     vendor |-> p.vendor,
     discount_pct |-> compute_discount_pct(safe_float(p.price_min),
                                           safe_float(p.compare_at_min)),
     created_at |-> p.created_at,
     updated_at |-> p.updated_at]

\* The four top-10 lists, as the sequences of product indices chosen.
TopExpensive(ps) ==
    Take(SortedByPairDesc([i \in DOMAIN ps |-> expensive_key(ps[i])]), TOP_N)

TopDiscounts(ps) ==
    LET order == SortedByPairDesc([i \in DOMAIN ps |-> discount_key(ps[i])])
    IN  Take(Filter(order, LAMBDA i : discount_key(ps[i])[1] = 1), TOP_N)

Newest(ps) ==
    Take(SortedByDtDesc([i \in DOMAIN ps |-> newest_dt(ps[i])]), TOP_N)

RecentlyUpdated(ps) ==
    Take(SortedByDtDesc([i \in DOMAIN ps |-> updated_dt(ps[i])]), TOP_N)

\* The sorts of lines 617-620 raise TypeError on mixed datetime keys.
ListsRaise(ps) ==
    \/ SortRaises([i \in DOMAIN ps |-> newest_dt(ps[i])])
    \/ SortRaises([i \in DOMAIN ps |-> updated_dt(ps[i])])

\* [d for each product with a positive price and a discount]
Discounts(ps) ==
    Present(Filter(
        [i \in DOMAIN ps |->
            LET pr == safe_float(ps[i].price_min)
            IN  IF IsNone(pr) \/ Val(pr) <= 0 THEN None
                ELSE compute_discount_pct(pr, safe_float(ps[i].compare_at_min))],
        LAMBDA o : ~IsNone(o)))

\* The comparative pass: every product with a parsable price is either
\* discounted or full price.
Priced(ps) == Filter(ps, LAMBDA p : ~IsNone(safe_float(p.price_min)))

DiscountOf(p) ==
    compute_discount_pct(safe_float(p.price_min), safe_float(p.compare_at_min))

DiscountedPrices(ps) ==
    Present(PricesOf(Filter(Priced(ps), LAMBDA p : ~IsNone(DiscountOf(p)))))

FullPrices(ps) ==
    Present(PricesOf(Filter(Priced(ps), LAMBDA p : IsNone(DiscountOf(p)))))

\* delta_pct of analyze_products: round((a - b) / b * 100, 2) in
\* hundredths; a is in cents, b2 is twice b (the unrounded median).
price_delta_pct(a, b2) ==
    IF IsNone(a) \/ IsNone(b2) \/ b2 = Some(0) THEN None
    ELSE Some(RoundDiv(10000 * (2 * Val(a) - Val(b2)), Val(b2)))

SumSeq(s) ==
    LET RECURSIVE go(_)
        go(k) == IF k = 0 THEN 0 ELSE s[k] + go(k - 1)
    IN  go(Len(s))

MinSeq(s) == CHOOSE v \in Range(s) : \A w \in Range(s) : v <= w
MaxSeq(s) == CHOOSE v \in Range(s) : \A w \in Range(s) : v >= w

\* count_since(dts, days): cutoff_days reads the clock.
count_since(dts, days, clock) ==
    Count(dts, LAMBDA d : ~IsNone(d) /\ Val(d) >= clock - Days(days))

\* out_updates.get(key, 0) on the update_activity dict, which is {} for an
\* empty Record Set.
UpdGet(updates_pack, Field(_), default) ==
    IF updates_pack.kind = "empty" THEN default
    ELSE Field(updates_pack.update_activity)

NewGet(updates_pack, Field(_), default) ==
    IF updates_pack.kind = "empty" THEN default
    ELSE Field(updates_pack.new_vs_old)

NewVsOld(ps, clock, updates_pack) ==
    LET total == Len(ps)
        created_dts == [i \in DOMAIN ps |-> parse_dt(ps[i].created_at)]
        updated_dts == [i \in DOMAIN ps |-> parse_dt(ps[i].updated_at)]
        c(k) == count_since(created_dts, k, clock)
        u30 == UpdGet(updates_pack, LAMBDA u : u.updated_30, 0)
        u90 == UpdGet(updates_pack, LAMBDA u : u.updated_90, 0)
        u180 == UpdGet(updates_pack, LAMBDA u : u.updated_180, 0)
        w(n) == [count |-> n, pct |-> pct(n, total)]
    IN  [total |-> total,
         created |-> [d30 |-> w(c(30)), d90 |-> w(c(90)), d180 |-> w(c(180)),
                      missing |-> Count(created_dts, IsNone)],
         updated |-> [d30 |-> w(u30), d90 |-> w(u90), d180 |-> w(u180),
                      missing |-> Count(updated_dts, IsNone)]]

Comparisons(ps, updates_pack) ==
    LET total == Len(ps)
        discounted_prices == DiscountedPrices(ps)
        full_prices == FullPrices(ps)
    IN  [new_vs_old |-> [
             created_30 |-> NewGet(updates_pack, LAMBDA n : n.created_30, 0),
             created_30_pct |-> NewGet(updates_pack, LAMBDA n : n.created_30_pct, 0),
             created_90 |-> NewGet(updates_pack, LAMBDA n : n.created_90, 0),
             created_90_pct |-> NewGet(updates_pack, LAMBDA n : n.created_90_pct, 0),
             created_180 |-> NewGet(updates_pack, LAMBDA n : n.created_180, 0),
             created_180_pct |-> NewGet(updates_pack, LAMBDA n : n.created_180_pct, 0),
             new_90_median_price |->
                 NewGet(updates_pack, LAMBDA n : n.new_90_median_price, None),
             catalog_median_price |->
                 NewGet(updates_pack, LAMBDA n : n.catalog_median_price, None)],
         update_activity |-> [
             updated_30 |-> UpdGet(updates_pack, LAMBDA u : u.updated_30, 0),
             updated_30_pct |-> UpdGet(updates_pack, LAMBDA u : u.updated_30_pct, 0),
             updated_90 |-> UpdGet(updates_pack, LAMBDA u : u.updated_90, 0),
             updated_90_pct |-> UpdGet(updates_pack, LAMBDA u : u.updated_90_pct, 0),
             bulk_update_flag |->
                 UpdGet(updates_pack, LAMBDA u : u.bulk_update_flag, FALSE),
             bulk_update_bucket |->
                 UpdGet(updates_pack, LAMBDA u : u.bulk_update_bucket, None),
             bulk_update_dominant_pct |->
                 UpdGet(updates_pack, LAMBDA u : u.bulk_update_dominant_pct, 0),
             bulk_filter_applied |->
                 UpdGet(updates_pack, LAMBDA u : u.bulk_filter_applied, FALSE),
             updated_30_raw |-> UpdGet(updates_pack, LAMBDA u : u.updated_30_raw, 0),
             updated_30_raw_pct |->
                 UpdGet(updates_pack, LAMBDA u : u.updated_30_raw_pct, 0),
             updated_90_raw |-> UpdGet(updates_pack, LAMBDA u : u.updated_90_raw, 0),
             updated_90_raw_pct |->
                 UpdGet(updates_pack, LAMBDA u : u.updated_90_raw_pct, 0)],
         discounted_vs_full_price |-> [
             discounted_count |-> Len(discounted_prices),
             discounted_pct |-> pct(Len(discounted_prices), total),
             discounted_median_price |-> RoundedMedian(discounted_prices),
             full_price_median_price |-> RoundedMedian(full_prices)]]

\* dict(Counter(keys)) as the set of (key, count) pairs
CounterDict(keys) ==
    {<<k, Cardinality({i \in DOMAIN keys : keys[i] = k})>> : k \in Range(keys)}

\* (p.get("vendor") or "Unknown").strip(): a vendor is None or a string,
\* held as its text and whether whitespace surrounds it.
Vendor(name) == Some([name |-> name, pad |-> FALSE])
PaddedVendor(name) == Some([name |-> name, pad |-> TRUE])

VendorKey(v) ==
    IF IsNone(v) \/ (Val(v).name = "" /\ ~Val(v).pad) THEN "Unknown"
    ELSE Val(v).name

VendorKeys(ps) == [i \in DOMAIN ps |-> VendorKey(ps[i].vendor)]

\* in_stock: bool(p.get("available")); out_stock: not bool(p.get("available"))
InStock(p) == Truthy(p.available)
OutOfStock_OnlyFalse(p) == p.available = "false"
OutOfStock(p) == ~Truthy(p.available)

Catalog(ps) ==
    LET total == Len(ps)
        in_stock == Filter(ps, InStock)
        out_stock == Filter(ps, OutOfStock)
    IN  [total_products |-> total,
         in_stock_count |-> Len(in_stock),
         in_stock_pct |-> pct(Len(in_stock), total),
         out_of_stock_count |-> Len(out_stock),
         out_of_stock_pct |-> pct(Len(out_stock), total),
         vendors |-> CounterDict(VendorKeys(ps)),
         vendor_count |-> Cardinality(Range(VendorKeys(ps)))]

DiscountsSection(ps) ==
    LET discounts == Discounts(ps)
        total == Len(ps)
    IN  [discounted_count |-> Len(discounts),
         discounted_pct |-> pct(Len(discounts), total),
         avg_discount_pct |->
             IF discounts = <<>> THEN None
             ELSE Some(RoundDiv(SumSeq(discounts), Len(discounts))),
         median_discount_pct |-> RoundedMedian(discounts),
         max_discount_pct |->
             IF discounts = <<>> THEN None ELSE Some(MaxSeq(discounts))]

Lists(ps) ==
    LET proj(idx) == [k \in DOMAIN idx |-> compact(ps[idx[k]])]
    IN  [top_expensive |-> proj(TopExpensive(ps)),
         top_discounts |-> proj(TopDiscounts(ps)),
         newest_products |-> proj(Newest(ps)),
         recently_updated |-> proj(RecentlyUpdated(ps))]

quantile_LowerNeighbour(values, quarters) ==
    LET n == Len(values)
        xs == [k \in 1..n |-> Kth(values, k)]
    IN  IF values = <<>> THEN None
        ELSE Some(4 * xs[((n - 1) * quarters) \div 4 + 1])

\* quantile(values, q) for q = quarters / 4, times 4 so that the linear
\* interpolation xs[lo] * (1 - w) + xs[hi] * w stays an integer; None for
\* an empty input.
quantile(values, quarters) ==
    LET n == Len(values)
        xs == [k \in 1..n |-> Kth(values, k)]
        pos4 == (n - 1) * quarters
        lo == pos4 \div 4
        r == pos4 % 4
    IN  IF values = <<>> THEN None
        ELSE IF quarters <= 0 THEN Some(4 * xs[1])
        ELSE IF quarters >= 4 THEN Some(4 * xs[n])
        ELSE IF r = 0 THEN Some(4 * xs[lo + 1])
        ELSE Some(xs[lo + 1] * (4 - r) + xs[lo + 2] * r)

bucket_order ==
    <<"<$25", "$25-$49", "$50-$99", "$100-$199", "$200-$299", "$300-$499", "$500+">>

\* Upper bounds (exclusive, in cents) of the first six buckets.
bucket_bounds == <<2500, 5000, 10000, 20000, 30000, 50000>>

price_bucket_ClosedUpper(price) ==
    LET below == {k \in DOMAIN bucket_bounds : price <= bucket_bounds[k]}
    IN  IF below = {} THEN bucket_order[7]
        ELSE bucket_order[CHOOSE k \in below : \A m \in below : k <= m]

price_bucket(price) ==
    LET below == {k \in DOMAIN bucket_bounds : price < bucket_bounds[k]}
    IN  IF below = {} THEN bucket_order[7]
        ELSE bucket_order[CHOOSE k \in below : \A m \in below : k <= m]

\* bucket label of every positive-priced product, in Record Set order
BucketLabels(ps) ==
    LET pos == PositivePrices(ps)
    IN  [i \in DOMAIN pos |-> price_bucket(pos[i])]

Pricing(ps) ==
    LET prices_pos == PositivePrices(ps)
        q(quarters) == IF prices_pos = <<>> THEN None
                       ELSE Some(RoundDiv(Val(quantile(prices_pos, quarters)), 4))
    IN  [count |-> Len(prices_pos),
         min |-> IF prices_pos = <<>> THEN None ELSE Some(MinSeq(prices_pos)),
         max |-> IF prices_pos = <<>> THEN None ELSE Some(MaxSeq(prices_pos)),
         median |-> RoundedMedian(prices_pos),
         p25 |-> q(1),
         p75 |-> q(3),
         price_buckets |-> [buckets |-> CounterDict(BucketLabels(ps)),
                            bucket_order |-> bucket_order]]

\* avg_images_per_product, avg_variants_per_product (hundredths)
ContentSignals(ps) ==
    LET total == Len(ps)
        image_counts == [i \in DOMAIN ps |-> ps[i].images]
        variants_counts == Present([i \in DOMAIN ps |-> ps[i].variants_count])
    IN  [avg_images_per_product |->
             IF total # 0 THEN RoundDiv(100 * SumSeq(image_counts), total) ELSE 0,
         avg_variants_per_product |->
             IF variants_counts = <<>> THEN None
             ELSE Some(RoundDiv(100 * SumSeq(variants_counts), Len(variants_counts)))]

\* clamp(x, 0, 100) on a fraction <<numerator, denominator>>, denominator > 0
clamp(x) ==
    IF x[1] < 0 THEN <<0, 1>>
    ELSE IF x[1] > 100 * x[2] THEN <<100, 1>>
    ELSE x

score_weighted_Unclamped(parts) ==
    LET usable == Filter(parts, LAMBDA pw : ~IsNone(pw[1]))
        RECURSIVE num(_)
        num(k) == IF k = 0 THEN 0
                  ELSE Val(usable[k][1])[1] * (4 \div Val(usable[k][1])[2])
                           * usable[k][2] + num(k - 1)
        RECURSIVE total_w(_)
        total_w(k) == IF k = 0 THEN 0 ELSE usable[k][2] + total_w(k - 1)
    IN  IF usable = <<>> THEN 0
        ELSE Max2(0, Min2(100, RoundDiv(num(Len(usable)),
                                        4 * total_w(Len(usable)))))

\* score_weighted(parts): parts are <<value, weight>> with value an Optional
\* fraction and weight in hundredths.  Pairs without a value are dropped;
\* the result is int(round(clamp(sum(clamp(v) * w) / sum(w)))), 0 when no
\* pair remains.
score_weighted(parts) ==
    LET usable == Filter(parts, LAMBDA pw : ~IsNone(pw[1]))
        n == Len(usable)
        v(i) == clamp(Val(usable[i][1]))
        w(i) == usable[i][2]
        RECURSIVE den(_)
        den(k) == IF k = 0 THEN 1 ELSE v(k)[2] * den(k - 1)
        RECURSIVE num(_)
        num(k) == IF k = 0 THEN 0
                  ELSE v(k)[1] * w(k) * (den(n) \div v(k)[2]) + num(k - 1)
        RECURSIVE total_w(_)
        total_w(k) == IF k = 0 THEN 0 ELSE w(k) + total_w(k - 1)
        s == RoundDiv(num(n), den(n) * total_w(n))
    IN  IF usable = <<>> THEN 0
        ELSE IF total_w(n) <= 0 THEN 0
        ELSE Max2(0, Min2(100, s))

score_label(score) ==
    IF score >= 75 THEN "High" ELSE IF score >= 45 THEN "Medium" ELSE "Low"

\* price_median = median(prices_pos), doubled; None without a positive price
PriceMedian2(ps) ==
    IF PositivePrices(ps) = <<>> THEN None ELSE Some(Median2(PositivePrices(ps)))

\* Market position label from the median price: < 40 Budget, < 120
\* Mid-Market, else Premium; a dash when there is no median.
MarketPosition(price_median2) ==
    IF IsNone(price_median2) THEN "-"
    ELSE IF Val(price_median2) < 2 * 4000 THEN "Budget"
    ELSE IF Val(price_median2) < 2 * 12000 THEN "Mid-Market"
    ELSE "Premium"

\* discount_pcts of the comparative pass: one per priced, discounted product
DiscountPcts(ps) ==
    LET disc == Filter(Priced(ps), LAMBDA p : ~IsNone(DiscountOf(p)))
    IN  [i \in DOMAIN disc |-> Val(DiscountOf(disc[i]))]

\* A percentage held in hundredths, as a fraction.
Hundredths(o) == IF IsNone(o) THEN None ELSE Some(<<Val(o), 100>>)

\* spread_score = clamp((max - min) / 300 * 100) when max > min, else None
SpreadScore(ps) ==
    LET pos == PositivePrices(ps)
    IN  IF pos # <<>> /\ MaxSeq(pos) > MinSeq(pos)
        THEN Some(clamp(<<MaxSeq(pos) - MinSeq(pos), 300>>))
        ELSE None

\* size_score = clamp(total / 2500 * 100)
SizeScore(ps) == Some(clamp(<<Len(ps), 25>>))

\* variants_score = clamp((avg_variants - 1) / 4 * 100)
VariantsScore(ps) ==
    LET avg == ContentSignals(ps).avg_variants_per_product
    IN  IF IsNone(avg) THEN None ELSE Some(clamp(<<Val(avg) - 100, 4>>))

Positioning(ps, clock, updates_pack) ==
    LET total == Len(ps)
        promo == score_weighted(<<
            <<Hundredths(Some(pct(Len(DiscountedPrices(ps)), total))), 60>>,
            <<Hundredths(RoundedMedian(DiscountPcts(ps))), 40>> >>)
        velocity == score_weighted(<<
            <<Hundredths(Some(NewVsOld(ps, clock, updates_pack).created.d90.pct)), 60>>,
            <<Hundredths(Some(UpdGet(updates_pack, LAMBDA u : u.updated_90_pct, 0))), 40>> >>)
        complexity == score_weighted(<<
            <<SizeScore(ps), 45>>, <<SpreadScore(ps), 35>>, <<VariantsScore(ps), 20>> >>)
        scored(x) == [score |-> x, label |-> score_label(x)]
    IN  [market_position |-> [label |-> MarketPosition(PriceMedian2(ps))],
         promo_intensity |-> scored(promo),
         launch_velocity |-> scored(velocity),
         catalog_complexity |-> scored(complexity)]

\* A sentence of takeaways or confidence_notes: the template it is
\* formatted from (id), the numbers interpolated into it, and the words
\* chosen by a condition.  Two sentences are the same string exactly when
\* the three agree.
Sentence(id, nums, word) == [id |-> id, nums |-> nums, word |-> word]

\* generate_launch_insights(analysis); analysis is the launch timeline, or
\* the error marker, from which every .get() falls back to its default.
generate_launch_insights(launch) ==
    LET full == launch.kind = "full"
        v30 == IF full THEN launch.velocity.last_30d ELSE 0
        trend == IF full THEN launch.acceleration.trend ELSE "none"
        accel == IF full THEN launch.acceleration.pct_30d_vs_90d ELSE None
        pp == launch.price_positioning
        pct_30d == IF full THEN launch.launch_counts.d30.pct ELSE 0
        count_30d == IF full THEN launch.launch_counts.d30.count ELSE 0
        velocity_insight ==
            <<Sentence(IF v30 >= 100 THEN "High launch velocity"
                       ELSE IF v30 >= 30 THEN "Moderate launch velocity"
                       ELSE "Low launch velocity",
                       <<v30>>, IF full THEN "float" ELSE "int")>>
        accel_insight ==
            IF trend \in {"Accelerating", "Decelerating"}
               /\ ~IsNone(accel) /\ Val(accel) # 0
            THEN <<Sentence("Launch rate", <<RoundDiv(Val(accel), 10)>>, trend)>>
            ELSE <<>>
        strategy_insight ==
            IF full /\ ~IsNone(pp.delta_90d_pct)
               /\ ~IsNone(pp.new_90d_median) /\ Val(pp.new_90d_median) # 0
               /\ ~IsNone(pp.catalog_median) /\ Val(pp.catalog_median) # 0
            THEN <<Sentence("New products (90d) vs catalog",
                            <<Val(pp.new_90d_median), Val(pp.catalog_median),
                              RoundDiv(Val(pp.delta_90d_pct), 10)>>,
                            pp.strategy)>>
            ELSE <<>>
        recency_insight ==
            IF pct_30d >= 500
            THEN <<Sentence("launched in last 30 days", <<pct_30d, count_30d>>, "")>>
            ELSE <<>>
    IN  velocity_insight \o accel_insight \o strategy_insight \o recency_insight

\* not (p.get("created_at") or p.get("published_at")): truthiness of the
\* raw field, so an unparsable string counts as present.
RawPresent(ts) == ts.form \notin {"none", "empty"}

\* compute_confidence_notes(products)
compute_confidence_notes(ps) ==
    LET total == Len(ps)
        missing_created ==
            Count(ps, LAMBDA p : ~(RawPresent(p.created_at) \/ RawPresent(p.published_at)))
        missing_updated == Count(ps, LAMBDA p : ~RawPresent(p.updated_at))
        missing_prices == Count(ps, LAMBDA p : IsNone(safe_float(p.price_min)))
        missing_compare == Count(ps, LAMBDA p : IsNone(safe_float(p.compare_at_min)))
    IN  IF total = 0
        THEN <<Sentence("No products were returned from /products.json", <<>>, "")>>
        ELSE <<Sentence("This report is based only on the public Shopify product catalog endpoint",
                        <<>>, ""),
               Sentence("Date coverage",
                        <<pct(total - missing_created, total),
                          pct(total - missing_updated, total)>>, ""),
               Sentence("Pricing coverage", <<pct(total - missing_prices, total)>>, ""),
               Sentence("Discount coverage", <<pct(total - missing_compare, total)>>, ""),
               Sentence("If a store returns HTML/404 for /products.json", <<>>, "")>>

\* takeaways: the launch insights, then the catalog sentences.
Takeaways(ps, launch) ==
    LET total == Len(ps)
        launch_takeaways ==
            IF launch.kind = "empty" THEN <<>> ELSE generate_launch_insights(launch)
        in_stock_pct == Catalog(ps).in_stock_pct
        disc_pct == pct(Len(Discounts(ps)), total)
        prices_pos == PositivePrices(ps)
        top == MostCommon(BucketLabels(ps), 1)
        newest == Newest(ps)
        newest_prices == Present([k \in DOMAIN newest |-> safe_float(ps[newest[k]].price_min)])
        avg_variants == ContentSignals(ps).avg_variants_per_product
        stock == <<Sentence("of products are currently in stock", <<in_stock_pct>>,
                     IF in_stock_pct >= 8000 THEN "stable inventory"
                     ELSE "potential stock gaps to exploit")>>
        disc == <<Sentence("of products show valid discounts", <<disc_pct>>,
                     IF disc_pct >= 3000 THEN "aggressive promotion"
                     ELSE "limited discounting")>>
        span == IF prices_pos # <<>>
                THEN <<Sentence("Pricing spans",
                          <<MinSeq(prices_pos), MaxSeq(prices_pos),
                            RoundDiv(Median2(prices_pos), 2)>>, "")>>
                ELSE <<>>
        band == IF top # <<>>
                THEN <<Sentence("The dominant price band is",
                          <<pct(top[1].count, total)>>, top[1].key)>>
                ELSE <<>>
        skew == IF prices_pos # <<>> /\ newest_prices # <<>>
                THEN <<Sentence("Newest products", <<>>,
                          IF Median2(newest_prices) > Median2(prices_pos)
                          THEN "skew above the store median price"
                          ELSE IF Median2(newest_prices) < Median2(prices_pos)
                          THEN "skew below the store median price"
                          ELSE "price near the median")>>
                ELSE <<>>
        variants == IF ~IsNone(avg_variants)
                    THEN <<Sentence("variants", <<>>,
                              IF Val(avg_variants) <= 130
                              THEN "Most products have few variants"
                              ELSE "Products have multiple variants on average")>>
                    ELSE <<>>
    IN  launch_takeaways
        \o (IF total # 0 THEN stock \o disc \o span \o band \o skew \o variants
            ELSE <<>>)

\* confidence_notes, in the order the code appends them.
ConfidenceNotes(ps, clock, updates_pack) ==
    LET total == Len(ps)
        prices_all == PricesOf(ps)
        zero_price_count == Count(prices_all, LAMBDA x : x = Some(0))
        priced_count == Count(prices_all, LAMBDA x : ~IsNone(x))
        nvo == NewVsOld(ps, clock, updates_pack)
        cm == pct(nvo.created.missing, total)
        um == pct(nvo.updated.missing, total)
        share == pct(Len(DiscountedPrices(ps)), total)
        flag == UpdGet(updates_pack, LAMBDA u : u.bulk_update_flag, FALSE)
        note(c, sentence) == IF c THEN <<sentence>> ELSE <<>>
    IN  note(total # 0 /\ zero_price_count > 0,
             Sentence("products had a $0 price and were excluded from price statistics",
                      <<zero_price_count>>, ""))
        \o note(total # 0 /\ priced_count = 0,
             Sentence("No usable pricing was found in the public products.json feed",
                      <<>>, ""))
        \o note(total # 0 /\ cm > 2000,
             Sentence("Created dates missing", <<cm>>, ""))
        \o note(total # 0 /\ um > 2000,
             Sentence("Updated dates missing", <<um>>, ""))
        \o note(total # 0 /\ share < 500,
             Sentence("Low discount detection: store may not use compare-at pricing consistently.",
                      <<>>, ""))
        \o (IF flag
            THEN <<Sentence("Update activity may be inflated",
                      <<updates_pack.update_activity.bulk_update_dominant_pct>>
                          \o updates_pack.update_activity.bulk_update_bucket,
                      IF updates_pack.update_activity.bulk_filter_applied
                      THEN "We filtered that spike to estimate organic edits."
                      ELSE "Spike detected, but filtering would remove nearly all updates")>>
            ELSE <<>>)
        \o compute_confidence_notes(ps)

\* The value analyze_products returns, or the exception it raises.  The
\* clock is read by compute_new_vs_old_and_updates, cutoff_days and
\* analyze_launch_timeline; one call is taken to read one instant.
analyze_products(ps, clock) ==
    Once(compute_new_vs_old_and_updates(ps, clock), LAMBDA updates_pack :
    Once(analyze_launch_timeline(ps, clock), LAMBDA launch_timeline :
        IF ListsRaise(ps) THEN [status |-> "raised", error |-> "TypeError"]
        ELSE [status |-> "ok",
              takeaways |-> Takeaways(ps, launch_timeline),
              confidence_notes |-> ConfidenceNotes(ps, clock, updates_pack),
              new_vs_old |-> NewVsOld(ps, clock, updates_pack),
              comparisons |-> Comparisons(ps, updates_pack),
              launch_timeline |-> launch_timeline,
              catalog |-> Catalog(ps),
              pricing |-> Pricing(ps),
              discounts |-> DiscountsSection(ps),
              content_signals |-> ContentSignals(ps),
              positioning |-> Positioning(ps, clock, updates_pack),
              lists |-> Lists(ps)]))

----------------------------------------------------------------------------
(* Inputs: the wall clock and the records a caller may hand to the core *)

MaxProducts == 3
MaxRuns == 2
MaxTicks == 1
MaxBatches == 2
MaxBulkLen == 203

\* The clock when the Record Set is assembled: noon of a day in 2026.
Now0 == Days(600) + 12 * 3600

\* The clock advances by a day between two requests.
TickStep == Days(1)

NoReport == [status |-> "none"]
NoPack == [kind |-> "none"]
NoCall == [fn |-> "none"]
NoGen == [pc |-> "idle"]

Base ==
    [title |-> "base", vendor |-> Vendor("Acme"),
     created_at |-> TsNone, published_at |-> TsNone, updated_at |-> TsNone,
     price_min |-> PrNum(5000), compare_at_min |-> PrNone,
     available |-> "true", variants_count |-> Some(1), images |-> 1]

\* Representative normalized records.  Every timestamp form, a missing and
\* an unparsable value of each optional field, a zero price, a discount,
\* a compare-at price below the price, and the three availability values
\* occur.
Fixtures ==
    { \* created just inside the 30-day window; updated an hour later
      [Base EXCEPT !.title = "recent",
                   !.created_at = TsZ(Now0 - Days(30) + 3600),
                   !.updated_at = TsZ(Now0 - Days(30) + 2 * 3600),
                   !.compare_at_min = PrStr(10000)],
      \* created two months ago (naive string); edited two days ago
      [Base EXCEPT !.title = "mid", !.vendor = Vendor("Bolt"),
                   !.created_at = TsNaive(Now0 - Days(60)),
                   !.updated_at = TsZ(Now0 - Days(2)),
                   !.price_min = PrStr(2000), !.available = "false",
                   !.variants_count = Some(3)],
      \* created over a year ago (offset string); zero price, compare-at set
      [Base EXCEPT !.title = "old", !.vendor = None,
                   !.created_at = TsOffset(Now0 - Days(400), 2 * 3600),
                   !.price_min = PrNum(0), !.compare_at_min = PrNum(1000),
                   !.available = "none", !.images = 0],
      \* nothing parsable: no timestamps, no price
      [Base EXCEPT !.title = "undated",
                   !.created_at = TsJunk, !.published_at = TsEmpty,
                   !.updated_at = TsJunk, !.price_min = PrJunk,
                   !.variants_count = None],
      \* only published_at; updated_at a day before it
      [Base EXCEPT !.title = "published",
                   !.published_at = TsZ(Now0 - Days(10)),
                   !.updated_at = TsZ(Now0 - Days(11)),
                   !.vendor = PaddedVendor("Acme"),
                   !.price_min = PrNum(12000), !.available = "false"],
      \* only updated_at; no price
      [Base EXCEPT !.title = "touched", !.vendor = Vendor("Bolt"),
                   !.updated_at = TsZ(Now0 - Days(1)),
                   !.price_min = PrNone],
      \* created three days ago, edited since; compare-at below the price
      [Base EXCEPT !.title = "fresh",
                   !.created_at = TsZ(Now0 - Days(3)),
                   !.updated_at = TsOffset(Now0 - Days(1), -5 * 3600),
                   !.price_min = PrNum(30000), !.compare_at_min = PrNum(20000)] }

----------------------------------------------------------------------------
(* Spec: requests to analyze_products on a Record Set, over time *)

Init ==
    /\ products = <<>>
    /\ now = Now0
    /\ report = NoReport
    /\ prev = NoReport
    /\ runs = 0
    /\ pack = NoPack
    /\ call = NoCall
    /\ gen = NoGen

\* The caller appends a normalized record to the Record Set it assembles
\* (generate, main.py: normalized = [normalize_product(p) ...]).
Receive(p) ==
    /\ runs = 0
    /\ Len(products) < MaxProducts
    /\ products' = Append(products, p)
    /\ UNCHANGED <<now, report, prev, runs, pack, call, gen>>

\* insights = analyze_products(normalized)
Analyze ==
    /\ runs < MaxRuns
    /\ report' = analyze_products(products, now)
    /\ prev' = report
    /\ runs' = runs + 1
    /\ UNCHANGED <<products, now, pack, call, gen>>

\* Time passes between two requests.
Tick ==
    /\ now < Now0 + MaxTicks * TickStep
    /\ now' = now + TickStep
    /\ UNCHANGED <<products, report, prev, runs, pack, call, gen>>

Next ==
    \/ \E p \in Fixtures : Receive(p)
    \/ Analyze
    \/ Tick

Spec == Init /\ [][Next]_vars

----------------------------------------------------------------------------
(* SpecBulk: compute_new_vs_old_and_updates on large Record Sets, which   *)
(* are assembled from runs of equal records                                *)

BatchSizes == {9, 10, 21, 30, 61, 142}

CreatedLongAgo == TsZ(Now0 - Days(100))

BulkFixtures ==
    { \* edited five days ago
      [Base EXCEPT !.title = "edited-A", !.created_at = CreatedLongAgo,
                   !.updated_at = TsZ(Now0 - Days(5))],
      \* edited forty days ago
      [Base EXCEPT !.title = "edited-B", !.created_at = CreatedLongAgo,
                   !.updated_at = TsZ(Now0 - Days(40))],
      \* updated exactly six hours after creation
      [Base EXCEPT !.title = "grace", !.created_at = TsZ(Now0 - Days(5)),
                   !.updated_at = TsZ(Now0 - Days(5) + GRACE_SECONDS)],
      \* updated_at a day before the creation instant (published_at)
      [Base EXCEPT !.title = "early", !.published_at = TsZ(Now0 - Days(4)),
                   !.updated_at = TsZ(Now0 - Days(5))],
      \* never updated
      [Base EXCEPT !.title = "untouched", !.created_at = CreatedLongAgo] }

\* The number of runs appended so far is the number of places where the
\* Record Set changes from one record to another, plus one.
Batches(ps) ==
    IF ps = <<>> THEN 0
    ELSE 1 + Cardinality({i \in 1..(Len(ps) - 1) : ps[i].title # ps[i + 1].title})

ReceiveBatch(p, k) ==
    /\ pack = NoPack
    /\ Len(products) + k <= MaxBulkLen
    /\ IF products = <<>> THEN TRUE ELSE products[Len(products)] # p
    /\ Batches(products) < MaxBatches
    /\ products' = products \o Repeat(p, k)
    /\ UNCHANGED <<now, report, prev, runs, pack, call, gen>>

\* updates_pack = compute_new_vs_old_and_updates(products)
CallComputeNewVsOld ==
    /\ pack = NoPack
    /\ pack' = compute_new_vs_old_and_updates(products, now)
    /\ UNCHANGED <<products, now, report, prev, runs, call, gen>>

NextBulk ==
    \/ \E p \in BulkFixtures, k \in BatchSizes : ReceiveBatch(p, k)
    \/ CallComputeNewVsOld

SpecBulk == Init /\ [][NextBulk]_vars

----------------------------------------------------------------------------
(* SpecFn: direct calls of the pure helpers *)

Amounts == {-500, 0, 1, 500, 999, 1000, 2499, 2500, 5000, 10000}
OptAmounts == {None} \cup {Some(a) : a \in Amounts}

CallComputeDiscountPct(price_min, compare_at_min) ==
    /\ call' = [fn |-> "compute_discount_pct",
                args |-> <<price_min, compare_at_min>>,
                ret |-> compute_discount_pct(price_min, compare_at_min)]
    /\ UNCHANGED <<products, now, report, prev, runs, pack, gen>>

NextFn ==
    \E a, b \in OptAmounts : CallComputeDiscountPct(a, b)

SpecFn == Init /\ [][NextFn]_vars

----------------------------------------------------------------------------
(* SpecGen: the /generate request: fetch_products_shopify pages through   *)
(* the store's /products.json, then generate normalizes, analyzes and      *)
(* appends the data-provenance notes.  Rendering the report to HTML / PDF  *)
(* (report.py) follows and is not modelled.                                *)

MAX_PAGES == 10

\* to_float(x): None for None and for what float() rejects.
to_float(x) == safe_float(x)

\* A product of the feed: its variants carry price, compare_at_price
\* (strings or null) and available; images is the number of images.
RawVariant(price, compare_at_price, available) ==
    [price |-> price, compare_at_price |-> compare_at_price,
     available |-> available]

\* normalize_product(p, base_url): prices are the variants' non-null
\* prices, compare_prices the variants' truthy compare_at_price values.
normalize_product(p) ==
    LET priced == Filter(p.variants, LAMBDA v : v.price.kind # "none")
        prices == [i \in DOMAIN priced |-> Val(to_float(priced[i].price))]
        compared == Filter(p.variants, LAMBDA v : v.compare_at_price.kind # "none")
        compare_prices ==
            [i \in DOMAIN compared |-> Val(to_float(compared[i].compare_at_price))]
    IN  [title |-> p.title, vendor |-> p.vendor,
         created_at |-> p.created_at, published_at |-> p.published_at,
         updated_at |-> p.updated_at,
         price_min |-> IF prices = <<>> THEN PrNone ELSE PrNum(MinSeq(prices)),
         compare_at_min |-> IF compare_prices = <<>> THEN PrNone
                            ELSE PrNum(MinSeq(compare_prices)),
         available |-> IF \E i \in DOMAIN p.variants : p.variants[i].available
                       THEN "true" ELSE "false",
         variants_count |-> Some(Len(p.variants)),
         images |-> Min2(p.images, 3)]

\* Products of the feeds below.
RawProducts ==
    [tee |->
        [title |-> "tee", vendor |-> Vendor("Acme"),
         created_at |-> TsOffset(Now0 - Days(20), -4 * 3600),
         published_at |-> TsOffset(Now0 - Days(20), -4 * 3600),
         updated_at |-> TsOffset(Now0 - Days(2), -4 * 3600),
         variants |-> <<RawVariant(PrStr(2500), PrStr(4000), TRUE),
                        RawVariant(PrStr(3000), PrNone, FALSE)>>,
         images |-> 4],
     sample |->
        [title |-> "sample", vendor |-> Vendor("Acme"),
         created_at |-> TsOffset(Now0 - Days(200), -4 * 3600),
         published_at |-> TsNone,
         updated_at |-> TsOffset(Now0 - Days(200) + 3600, -4 * 3600),
         variants |-> <<RawVariant(PrStr(0), PrNone, TRUE)>>,
         images |-> 0],
     draft |->
        [title |-> "draft", vendor |-> Vendor(""),
         created_at |-> TsOffset(Now0 - Days(50), -4 * 3600),
         published_at |-> TsNone,
         updated_at |-> TsOffset(Now0 - Days(45), -4 * 3600),
         variants |-> <<>>,
         images |-> 1]]

\* What a store's /products.json?page=n holds: a small store has two
\* pages of products, a large one has products on every page, a single
\* one has one product, an empty one has none.
Stores == {"small", "large", "single", "empty"}

Catalog_page(store, page) ==
    IF store = "small" /\ page = 1 THEN <<RawProducts.tee, RawProducts.sample>>
    ELSE IF store = "small" /\ page = 2 THEN <<RawProducts.draft>>
    ELSE IF store = "large" THEN <<RawProducts.tee>>
    ELSE IF store = "single" /\ page = 1 THEN <<RawProducts.sample>>
    ELSE <<>>

\* The responses to a page request: the JSON page of the store with
\* status 200, a non-JSON body, a 403 / 429 block, another non-200 status.
Responses == {"ok", "nonjson", "blocked", "status"}

\* extra_notes of generate
extra_notes ==
    <<Sentence("Data source: public Shopify /products.json endpoint.", <<>>, ""),
      Sentence("Safety cap: up to 10 pages x 250 products (max ~2,500 products).",
               <<>>, ""),
      Sentence("Discounts are counted only when compare_at_min > price_min.",
               <<>>, ""),
      Sentence("This report does not infer traffic, conversion rate, or revenue.",
               <<>>, "")>>

AppendIfAbsent_Twice(notes, n) == Append(Append(notes, n), n)

\* for n in extra_notes: if n not in notes: notes.append(n)
AppendIfAbsent(notes, n) ==
    IF n \in Range(notes) THEN notes ELSE Append(notes, n)

with_extra_notes(notes) ==
    LET RECURSIVE go(_)
        go(k) == IF k = 0 THEN notes ELSE AppendIfAbsent(go(k - 1), extra_notes[k])
    IN  go(Len(extra_notes))

\* POST /generate arrives; fetch_products_shopify starts with page 1.
StartGenerate(store) ==
    /\ gen.pc \in {"idle", "done"}
    /\ gen' = [pc |-> "fetch", store |-> store, page |-> 1, requests |-> 0,
               fetched |-> <<>>, failure |-> "none", analyzed |-> FALSE,
               outcome |-> "none", insights |-> NoReport]
    /\ UNCHANGED <<products, now, report, prev, runs, pack, call>>

\* One iteration of the page loop: the request and what its response
\* leads to.  Every break ends the loop with the products of the earlier
\* pages; max_products is None in generate.
FetchPage(response) ==
    /\ gen.pc = "fetch"
    /\ gen.page <= MAX_PAGES
    /\ LET batch == Catalog_page(gen.store, gen.page)
           stop == response # "ok" \/ batch = <<>>
       IN  gen' = [gen EXCEPT
                     !.requests = @ + 1,
                     !.failure = IF response # "ok" THEN response ELSE @,
                     !.fetched = IF stop THEN @ ELSE @ \o batch,
                     !.page = IF stop THEN @ ELSE @ + 1,
                     !.pc = IF stop \/ gen.page + 1 > MAX_PAGES
                            THEN "fetched" ELSE "fetch"]
    /\ UNCHANGED <<products, now, report, prev, runs, pack, call>>

\* generate after the fetch: HTTP 400 when nothing was fetched, else
\* normalize, analyze and append the provenance notes.
FinishGenerate ==
    /\ gen.pc = "fetched"
    /\ IF gen.fetched = <<>>
       THEN gen' = [gen EXCEPT !.pc = "done", !.outcome = "no_data"]
       ELSE LET normalized == [i \in DOMAIN gen.fetched |->
                                  normalize_product(gen.fetched[i])]
            IN  \E insights \in {analyze_products(normalized, now)} :
                    gen' = [gen EXCEPT
                              !.pc = "done",
                              !.analyzed = TRUE,
                              !.outcome = IF insights.status = "ok"
                                          THEN "report" ELSE "crash",
                              !.insights =
                                  IF insights.status = "ok"
                                  THEN [insights EXCEPT !.confidence_notes =
                                            with_extra_notes(@)]
                                  ELSE insights]
    /\ UNCHANGED <<products, now, report, prev, runs, pack, call>>

NextGen ==
    \/ \E store \in Stores : StartGenerate(store)
    \/ \E response \in Responses : FetchPage(response)
    \/ FinishGenerate

SpecGen == Init /\ [][NextGen]_vars

----------------------------------------------------------------------------
(* SpecPricing: direct calls of price_bucket and quantile, and the pricing *)
(* section of the report on Record Sets of chosen prices; one call per     *)
(* behaviour                                                               *)

MaxPrices == 3
MaxValues == 4

SeqsUpTo(S, n) == UNION {[1..k -> S] : k \in 0..n}

\* Positive prices (cents) on and next to every bucket boundary.
PriceSamples ==
    {1, 2499, 2500, 4999, 5000, 9999, 10000, 19999, 20000, 29999, 30000,
     49999, 50000, 100000}

\* price_min fields of the records handed to the pricing section.
PriceFields ==
    {PrNone, PrNum(0), PrStr(2499), PrNum(2500), PrNum(4999), PrNum(49999),
     PrNum(50000)}

QuantileValues == {100, 200, 300, 400}

\* bucket_counts[price_bucket(pr)] += 1
CallPriceBucket(price) ==
    /\ call = NoCall
    /\ call' = [fn |-> "price_bucket", args |-> <<price>>,
                ret |-> price_bucket(price)]
    /\ UNCHANGED <<products, now, report, prev, runs, pack, gen>>

\* quantile(prices_pos, 0.25), quantile(prices_pos, 0.75) and the other
\* quarters
CallQuantile(values, quarters) ==
    /\ call = NoCall
    /\ call' = [fn |-> "quantile", args |-> <<values, quarters>>,
                ret |-> quantile(values, quarters)]
    /\ UNCHANGED <<products, now, report, prev, runs, pack, gen>>

\* "pricing": {...} of the report, for the records ps
CallPricing(ps) ==
    /\ call = NoCall
    /\ call' = [fn |-> "pricing", args |-> <<ps>>, ret |-> Pricing(ps)]
    /\ UNCHANGED <<products, now, report, prev, runs, pack, gen>>

NextPricing ==
    \/ \E price \in PriceSamples : CallPriceBucket(price)
    \/ \E values \in SeqsUpTo(QuantileValues, MaxValues) :
           \E quarters \in 0..4 : CallQuantile(values, quarters)
    \/ \E fields \in SeqsUpTo(PriceFields, MaxPrices) :
           CallPricing([i \in DOMAIN fields |->
                           [Base EXCEPT !.price_min = fields[i]]])

SpecPricing == Init /\ [][NextPricing]_vars

----------------------------------------------------------------------------
(* SpecScores: direct calls of score_weighted, and the positioning section *)
(* of the report on small Record Sets; one call per behaviour              *)

MaxScored == 2

\* Values handed to score_weighted, in quarters: -20, 0, 33, 50.25, 100
\* and 150, and undefined.
ScoreValues ==
    {None} \cup {Some(<<h, 4>>) : h \in {-80, 0, 132, 201, 400, 600}}

\* The weights of the callers (hundredths): one part, promo_intensity and
\* launch_velocity (0.6, 0.4), catalog_complexity (0.45, 0.35, 0.20).
WeightLists == {<<100>>, <<60, 40>>, <<45, 35, 20>>}

\* score_weighted([(v1, w1), ...])
CallScoreWeighted(parts) ==
    /\ call = NoCall
    /\ call' = [fn |-> "score_weighted", args |-> <<parts>>,
                ret |-> score_weighted(parts)]
    /\ UNCHANGED <<products, now, report, prev, runs, pack, gen>>

\* "positioning": {...} of the report, for the records ps
CallPositioning(ps) ==
    /\ call = NoCall
    /\ call' = [fn |-> "positioning", args |-> <<ps>>,
                ret |-> Positioning(ps, now,
                                    compute_new_vs_old_and_updates(ps, now))]
    /\ UNCHANGED <<products, now, report, prev, runs, pack, gen>>

NextScores ==
    \/ \E weights \in WeightLists :
           \E values \in [DOMAIN weights -> ScoreValues] :
               CallScoreWeighted([i \in DOMAIN weights |->
                                     <<values[i], weights[i]>>])
    \/ \E ps \in SeqsUpTo(Fixtures, MaxScored) : CallPositioning(ps)

SpecScores == Init /\ [][NextScores]_vars

----------------------------------------------------------------------------
(* SpecTrend: velocity, acceleration and trend label of the launch         *)
(* timeline, from the launch counts of the 30-day and 90-day windows; one  *)
(* call per behaviour                                                      *)

MaxLaunches == 26

\* velocity, accel_30_vs_90 and "trend" of analyze_launch_timeline for
\* launch_counts["30d"]["count"] = count_30d and
\* launch_counts["90d"]["count"] = count_90d
CallLaunchTrend(count_30d, count_90d) ==
    /\ call = NoCall
    /\ LET v30 == calc_velocity(30, count_30d)
           v90 == calc_velocity(90, count_90d)
           accel == Acceleration(v30, v90)
       IN  call' = [fn |-> "launch_trend", args |-> <<count_30d, count_90d>>,
                    ret |-> [last_30d |-> v30, last_90d |-> v90,
                             pct_30d_vs_90d |-> accel,
                             trend |-> BandLabel(accel, "Accelerating",
                                                 "Decelerating", "Steady")]]
    /\ UNCHANGED <<products, now, report, prev, runs, pack, gen>>

\* The 30-day window lies inside the 90-day window.
NextTrend ==
    \E count_90d \in 0..MaxLaunches :
        \E count_30d \in 0..count_90d : CallLaunchTrend(count_30d, count_90d)

SpecTrend == Init /\ [][NextTrend]_vars

----------------------------------------------------------------------------
(* SpecLaunch: analyze_launch_timeline on Record Sets of chosen creation   *)
(* dates; one call per behaviour                                           *)

MaxDated == 4

\* Days before Now0 (24 August 2026) at which a record was created: in
\* August, July, June and May 2026, and before the trailing year.
CreatedDaysAgo == {5, 40, 70, 100, 400}

\* launch = analyze_launch_timeline(products)
CallLaunchTimeline(ps) ==
    /\ call = NoCall
    /\ call' = [fn |-> "analyze_launch_timeline", args |-> <<ps>>,
                ret |-> analyze_launch_timeline(ps, now)]
    /\ UNCHANGED <<products, now, report, prev, runs, pack, gen>>

NextLaunch ==
    \E ago \in SeqsUpTo(CreatedDaysAgo, MaxDated) :
        CallLaunchTimeline([i \in DOMAIN ago |->
            [Base EXCEPT !.created_at = TsZ(Now0 - Days(ago[i]))]])

SpecLaunch == Init /\ [][NextLaunch]_vars

----------------------------------------------------------------------------
(* SpecFrame: the caller's Record Set across one call of analyze_products  *)

RecordSetAfter_DatedSorted(ps) == DatedProducts(ps)

\* The caller's list after analyze_products(products) has returned or
\* raised.  The list is passed by reference; the code only reads it: it
\* iterates, calls p.get(...) and sorted(products, ...) (a new list), and
\* the one in-place sort (dated_products.sort) works on a list of wrapper
\* dicts that analyze_launch_timeline builds itself.
RecordSetAfter(ps) == ps

\* The caller adds a record before the call.
ReceiveBeforeCall(p) ==
    /\ call = NoCall
    /\ Receive(p)

\* analyze_products(products): call records the list as it was handed
\* over and whether the call returned or raised.
AnalyzeRecordSet ==
    /\ call = NoCall
    /\ call' = [fn |-> "analyze_products", args |-> <<products>>,
                ret |-> analyze_products(products, now).status]
    /\ products' = RecordSetAfter(products)
    /\ UNCHANGED <<now, report, prev, runs, pack, gen>>

NextFrame ==
    \/ \E p \in Fixtures : ReceiveBeforeCall(p)
    \/ AnalyzeRecordSet

SpecFrame == Init /\ [][NextFrame]_vars

----------------------------------------------------------------------------
(* SpecFetch: fetch_products_shopify(store_url, max_products) on its own,  *)
(* with the pages it asks for and the answers it gets.  SpecFetchFair adds *)
(* that every request is answered (the client has a 25 s timeout, after    *)
(* which httpx raises).                                                    *)

\* max_products: None or a cap.
Caps == {None, Some(0), Some(1), Some(2), Some(5)}

\* What a request can lead to: the four answers the loop tests for, a 200
\* JSON answer, or an exception of client.get / r.json that leaves the
\* function.
Answers == Responses \cup {"exception"}

Stops_OnlyWhenEmpty(response, batch) == batch = <<>>

\* The breaks of lines 24-39: a non-JSON content type, 403/429, another
\* status than 200, or no products in the page.
Stops(response, batch) == response # "ok" \/ batch = <<>>

\* products = [], page = 1
StartFetch(store, max_products) ==
    /\ gen.pc \in {"idle", "returned", "raised"}
    /\ gen' = [pc |-> "fetch", store |-> store, max_products |-> max_products,
               page |-> 1, asked |-> <<>>, answers |-> <<>>, products |-> <<>>]
    /\ UNCHANGED <<products, now, report, prev, runs, pack, call>>

\* One iteration of while page <= MAX_PAGES; when the condition fails the
\* function returns.
FetchStep(response) ==
    /\ gen.pc = "fetch"
    /\ gen.page <= MAX_PAGES
    /\ LET batch == Catalog_page(gen.store, gen.page)
           extended == gen.products \o batch
           capped == ~IsNone(gen.max_products)
                         /\ Len(extended) >= Val(gen.max_products)
           asked == Append(gen.asked, gen.page)
           answers == Append(gen.answers, response)
       IN  IF response = "exception"
           THEN gen' = [gen EXCEPT !.pc = "raised", !.asked = asked,
                                   !.answers = answers]
           ELSE IF Stops(response, batch)
           THEN gen' = [gen EXCEPT !.pc = "returned", !.asked = asked,
                                   !.answers = answers]
           ELSE IF capped
           THEN gen' = [gen EXCEPT !.pc = "returned", !.asked = asked,
                                   !.answers = answers,
                                   !.products = Take(extended, Val(gen.max_products))]
           ELSE gen' = [gen EXCEPT !.pc = IF gen.page + 1 <= MAX_PAGES
                                          THEN "fetch" ELSE "returned",
                                   !.asked = asked, !.answers = answers,
                                   !.products = extended,
                                   !.page = @ + 1]
    /\ UNCHANGED <<products, now, report, prev, runs, pack, call>>

NextFetch ==
    \/ \E store \in Stores : \E max_products \in Caps :
           StartFetch(store, max_products)
    \/ \E response \in Answers : FetchStep(response)

SpecFetch == Init /\ [][NextFetch]_vars

SpecFetchFair ==
    SpecFetch /\ WF_vars(\E response \in Answers : FetchStep(response))

----------------------------------------------------------------------------
(* SpecWindows: the window counts of analyze_launch_timeline and of       *)
(* compute_new_vs_old_and_updates on records spread over the windows      *)

MaxWindowed == 3

\* One record per window: created (and meaningfully updated) a number of
\* days before Now0 that lies inside 7d, 30d (one exactly on the cutoff),
\* 90d, 180d, 1yr and beyond, and a record without a creation instant.
WindowRecords ==
    { [Base EXCEPT !.title = "w3", !.created_at = TsZ(Now0 - Days(3))],
      [Base EXCEPT !.title = "w20", !.created_at = TsZ(Now0 - Days(20)),
                   !.updated_at = TsZ(Now0 - Days(3))],
      [Base EXCEPT !.title = "w30", !.created_at = TsZ(Now0 - Days(30)),
                   !.updated_at = TsZ(Now0 - Days(30) + 2 * GRACE_SECONDS)],
      [Base EXCEPT !.title = "w60", !.published_at = TsZ(Now0 - Days(60)),
                   !.updated_at = TsZ(Now0 - Days(20))],
      [Base EXCEPT !.title = "w120", !.created_at = TsZ(Now0 - Days(120)),
                   !.updated_at = TsZ(Now0 - Days(60))],
      [Base EXCEPT !.title = "w200", !.created_at = TsZ(Now0 - Days(200)),
                   !.updated_at = TsZ(Now0 - Days(120))],
      [Base EXCEPT !.title = "w400", !.created_at = TsZ(Now0 - Days(400)),
                   !.updated_at = TsZ(Now0 - Days(200))],
      [Base EXCEPT !.title = "nodate", !.updated_at = TsZ(Now0 - Days(400))] }

\* updates_pack = compute_new_vs_old_and_updates(products)
CallNewVsOldAndUpdates(ps) ==
    /\ call = NoCall
    /\ call' = [fn |-> "compute_new_vs_old_and_updates", args |-> <<ps>>,
                ret |-> compute_new_vs_old_and_updates(ps, now)]
    /\ UNCHANGED <<products, now, report, prev, runs, pack, gen>>

NextWindows ==
    \/ \E ps \in SeqsUpTo(WindowRecords, MaxWindowed) : CallLaunchTimeline(ps)
    \/ \E ps \in SeqsUpTo(WindowRecords, MaxWindowed) :
           CallNewVsOldAndUpdates(ps)

SpecWindows == Init /\ [][NextWindows]_vars

----------------------------------------------------------------------------
(* SpecBuy: the /buy handler and the store probe it runs before payment.  *)
(* A URL is a sequence of pieces (scheme, "www.", host, "/", path); gen   *)
(* holds the handler's position and what it has done so far.              *)

\* Typed store URLs: bare host, www host, with scheme, trailing slash,
\* surrounding blanks, a path, and "httpshop.com", which starts with
\* "http" without being a scheme.
StoreUrls ==
    { <<"shop.com">>,
      <<"www.", "shop.com">>,
      <<"https://", "shop.com", "/">>,
      <<"http://", "www.", "shop.com">>,
      <<" ", "shop.com", " ">>,
      <<"shop.com", "/", "collections">>,
      <<"http", "shop.com">> }

Schemes == {"https://", "http://"}

RECURSIVE LStrip(_, _)
LStrip(url, piece) ==
    IF url # <<>> /\ Head(url) = piece THEN LStrip(Tail(url), piece) ELSE url

RECURSIVE RStrip(_, _)
RStrip(url, piece) ==
    IF url # <<>> /\ url[Len(url)] = piece
    THEN RStrip(SubSeq(url, 1, Len(url) - 1), piece) ELSE url

\* normalize_store_url: None stands for ValueError.
normalize_store_url(url) ==
    LET stripped == RStrip(LStrip(url, " "), " ")
        starts_with_http == stripped # <<>> /\ stripped[1] \in Schemes \cup {"http"}
        prefixed == IF starts_with_http THEN stripped
                    ELSE <<"https://">> \o stripped
    IN  IF prefixed[1] \notin Schemes THEN None
        ELSE Some(RStrip(prefixed, "/"))

\* urlparse(base).hostname: the pieces between the scheme and the path.
RECURSIVE UpToSlash(_)
UpToSlash(url) ==
    IF url = <<>> \/ Head(url) = "/" THEN <<>>
    ELSE <<Head(url)>> \o UpToSlash(Tail(url))

Hostname(base) == UpToSlash(Tail(base))

\* candidates: the typed host, then the alternate www / apex host.
Candidates(base) ==
    LET host == Hostname(base)
    IN  IF host # <<>> /\ host[1] = "www."
        THEN << base, <<base[1]>> \o Tail(host) >>
        ELSE << base, <<base[1], "www.">> \o host >>

\* What requests.get and r.json() can lead to in probe: a network error,
\* a status other than 200, a body that is not JSON, JSON without a
\* products list, a products list, or a JSON body that is not an object
\* (data.get raises AttributeError, which probe does not catch).
ProbeAnswers ==
    {"network_error", "404", "403", "500", "not_json", "bad_shape", "ok",
     "json_list"}

\* probe(candidate_base), for the answers it returns on.
probe(answer) ==
    IF answer = "ok" THEN [ok |-> TRUE, reason |-> "", status |-> "200"]
    ELSE [ok |-> FALSE, reason |-> answer,
          status |-> IF answer = "network_error" THEN "None"
                     ELSE IF answer \in {"404", "403", "500"} THEN answer
                     ELSE "200"]

\* STRIPE_SECRET_KEY, PUBLIC_BASE_URL, STRIPE_PRICE_ID: set or not.
Environments ==
    [STRIPE_SECRET_KEY : BOOLEAN, PUBLIC_BASE_URL : BOOLEAN,
     STRIPE_PRICE_ID : BOOLEAN]

Reply(status, detail) == [status |-> status, detail |-> detail]

NoReply == Reply("none", "")

StoreSupported_Always(check) == TRUE

\* if not probe.get("ok"): raise HTTPException(400, "Store not supported")
StoreSupported(check) == check.ok

\* buy, from the return of check_store up to the Stripe call.
AfterCheckStore(g, check) ==
    IF ~StoreSupported(check)
    THEN [g EXCEPT !.pc = "replied", !.check = check,
                   !.response = Reply("400", "Store not supported")]
    ELSE IF ~g.env.STRIPE_SECRET_KEY
    THEN [g EXCEPT !.pc = "replied", !.check = check,
                   !.response = Reply("500", "Missing STRIPE_SECRET_KEY")]
    ELSE IF ~g.env.PUBLIC_BASE_URL
    THEN [g EXCEPT !.pc = "replied", !.check = check,
                   !.response = Reply("500", "Missing PUBLIC_BASE_URL env var")]
    ELSE IF ~g.env.STRIPE_PRICE_ID
    THEN [g EXCEPT !.pc = "replied", !.check = check,
                   !.response = Reply("500", "Missing STRIPE_PRICE_ID env var")]
    ELSE [g EXCEPT !.pc = "create", !.check = check]

\* POST /buy: normalize the URL, then enter check_store(base).
Buy(store_url, env) ==
    /\ gen.pc \in {"idle", "replied"}
    /\ LET base == normalize_store_url(store_url)
           g == [pc |-> "probe", store_url |-> store_url, env |-> env,
                 base |-> <<>>, candidates |-> <<>>, attempts |-> <<>>,
                 check |-> [ok |-> FALSE, reason |-> "", base_url |-> <<>>],
                 stripe_calls |-> <<>>, response |-> NoReply]
       IN  gen' = IF IsNone(base)
                  THEN [g EXCEPT !.pc = "replied",
                                 !.response = Reply("400",
                                     "Please enter a valid store URL")]
                  ELSE [g EXCEPT !.base = Val(base),
                                 !.candidates = Candidates(Val(base))]
    /\ UNCHANGED <<products, now, report, prev, runs, pack, call>>

\* One iteration of "for c in candidates" in check_store; on its return
\* buy runs on to the Stripe call or to an error reply.
Probe(answer) ==
    /\ gen.pc = "probe"
    /\ LET c == gen.candidates[Len(gen.attempts) + 1]
           result == probe(answer)
           attempts == Append(gen.attempts,
                           [base_url |-> c, ok |-> result.ok,
                            reason |-> result.reason, status |-> result.status])
           tried == [gen EXCEPT !.attempts = attempts]
       IN  gen' = IF answer = "json_list"
                  THEN [gen EXCEPT !.pc = "replied",
                                   !.response = Reply("500", "AttributeError")]
                  ELSE IF result.ok
                  THEN AfterCheckStore(tried,
                           [ok |-> TRUE, reason |-> "", base_url |-> c])
                  ELSE IF Len(attempts) < Len(gen.candidates) THEN tried
                  ELSE AfterCheckStore(tried,
                           [ok |-> FALSE, reason |-> attempts[1].reason,
                            base_url |-> <<>>])
    /\ UNCHANGED <<products, now, report, prev, runs, pack, call>>

\* session = stripe.checkout.Session.create(...): a session, or an
\* exception that becomes a 500 reply.
CreateSession(answer) ==
    /\ gen.pc = "create"
    /\ gen' = [gen EXCEPT
                 !.pc = "replied",
                 !.stripe_calls = Append(@, [store_url |-> gen.base]),
                 !.response = IF answer = "session"
                              THEN Reply("200", "url")
                              ELSE Reply("500", "Stripe session error")]
    /\ UNCHANGED <<products, now, report, prev, runs, pack, call>>

NextBuy ==
    \/ \E store_url \in StoreUrls : \E env \in Environments :
           Buy(store_url, env)
    \/ \E answer \in ProbeAnswers : Probe(answer)
    \/ \E answer \in {"session", "exception"} : CreateSession(answer)

SpecBuy == Init /\ [][NextBuy]_vars

----------------------------------------------------------------------------
(* Properties of analyze_products (Spec) and compute_discount_pct (SpecFn) *)

\* C1: analyze_products never raises because of individual missing or
\* unparsable timestamps: whenever some record of the Record Set has a
\* parsable created_at / published_at / updated_at and another record has
\* a missing or unparsable one, the call returns a report.
C1_MixedTimestampsReturnReport ==
    LET Parsable(p) == ~IsNone(parse_dt(p.created_at))
                       \/ ~IsNone(parse_dt(p.published_at))
                       \/ ~IsNone(parse_dt(p.updated_at))
        Lacking(p) == IsNone(parse_dt(p.created_at))
                      \/ IsNone(parse_dt(p.published_at))
                      \/ IsNone(parse_dt(p.updated_at))
    IN  (/\ runs > 0
         /\ \E i \in DOMAIN products : Parsable(products[i])
         /\ \E j \in DOMAIN products : Lacking(products[j]))
        => report.status = "ok"

\* C2: compute_discount_pct(price_min, compare_at_min) is defined if and
\* only if compare_at_min > price_min > 0, and when defined it is
\* (compare_at_min - price_min) / compare_at_min * 100 (two decimals).
C2_DiscountDefinedIff ==
    call.fn = "compute_discount_pct" =>
        LET price_min == call.args[1]
            compare_at_min == call.args[2]
            defined == /\ ~IsNone(price_min)
                       /\ ~IsNone(compare_at_min)
                       /\ Val(compare_at_min) > Val(price_min)
                       /\ Val(price_min) > 0
        IN  /\ ~IsNone(call.ret) <=> defined
            /\ defined =>
                   call.ret = Some(RoundDiv(
                       10000 * (Val(compare_at_min) - Val(price_min)),
                       Val(compare_at_min)))

\* C6: in every report, in_stock_count + out_of_stock_count =
\* total_products = the number of input records.
C6_StockCountsPartition ==
    report.status = "ok" =>
        /\ report.catalog.in_stock_count + report.catalog.out_of_stock_count
               = report.catalog.total_products
        /\ report.catalog.total_products = Len(products)

\* A report on several records whose availability is missing: they are
\* counted out of stock.
C6_Witness ==
    /\ report.status = "ok"
    /\ Len(products) >= 2
    /\ \E i \in DOMAIN products : products[i].available = "none"
    /\ report.catalog.out_of_stock_count = Len(products)

\* C8: two runs of analyze_products on the same Record Set give equal
\* reports (generated_at, the one declared clock field, is not part of
\* the modelled report): nothing else depends on the instant of the call.
C8_SecondRunEqualsFirst ==
    runs = 2 => report = prev

\* C9: for every Record Set, the empty one included, analyze_products
\* returns without raising and the report has every named section.
C9_ReturnsEverySection ==
    runs > 0 =>
        /\ report.status = "ok"
        /\ {"catalog", "pricing", "discounts", "content_signals",
            "positioning", "new_vs_old", "comparisons", "launch_timeline",
            "takeaways", "confidence_notes", "lists"} \subseteq DOMAIN report

\* C10: when no record has a parsable creation instant (created_at or
\* published_at), the empty Record Set included, the analysis does not
\* crash and launch_timeline is the explicit "no dates" error marker.
C10_NoDatesGiveErrorMarker ==
    (runs > 0 /\ \A i \in DOMAIN products : IsNone(created_dt(products[i])))
        => /\ report.status = "ok"
           /\ report.launch_timeline.kind = "error"

----------------------------------------------------------------------------
(* Percentage fields of the report *)

\* The share percentages of a report, in hundredths of a percent: stock,
\* discount, window (created / updated, organic and raw), launch-count
\* and vendor percentages, and the bulk-dominant percentage (held in
\* tenths, hence times 10).
SharePercentages ==
    LET opt(o) == IF IsNone(o) THEN {} ELSE {Val(o)}
        lt == report.launch_timeline
        cn == report.comparisons.new_vs_old
        cu == report.comparisons.update_activity
    IN  {report.catalog.in_stock_pct, report.catalog.out_of_stock_pct,
         report.discounts.discounted_pct,
         report.comparisons.discounted_vs_full_price.discounted_pct,
         report.new_vs_old.created.d30.pct, report.new_vs_old.created.d90.pct,
         report.new_vs_old.created.d180.pct,
         report.new_vs_old.updated.d30.pct, report.new_vs_old.updated.d90.pct,
         report.new_vs_old.updated.d180.pct,
         cn.created_30_pct, cn.created_90_pct, cn.created_180_pct,
         cu.updated_30_pct, cu.updated_90_pct,
         cu.updated_30_raw_pct, cu.updated_90_raw_pct,
         10 * cu.bulk_update_dominant_pct}
        \cup opt(report.discounts.avg_discount_pct)
        \cup opt(report.discounts.median_discount_pct)
        \cup opt(report.discounts.max_discount_pct)
        \cup (IF lt.kind # "full" THEN {}
              ELSE {lt.launch_counts.d7.pct, lt.launch_counts.d30.pct,
                    lt.launch_counts.d90.pct, lt.launch_counts.d180.pct,
                    lt.launch_counts.y1.pct}
                   \cup {lt.new_product_vendors.top_3[i].pct :
                            i \in DOMAIN lt.new_product_vendors.top_3})

\* The signed percentage changes of a report, in tenths of a percent: the
\* acceleration (30d vs 90d velocity) and the launch price deltas.
ChangePercentages ==
    LET opt(o) == IF IsNone(o) THEN {} ELSE {Val(o)}
        lt == report.launch_timeline
    IN  IF lt.kind # "full" THEN {}
        ELSE opt(lt.acceleration.pct_30d_vs_90d)
             \cup opt(lt.price_positioning.delta_30d_pct)
             \cup opt(lt.price_positioning.delta_90d_pct)

\* C7 (as stated): every percentage field of the report lies in [0, 100],
\* the acceleration and price-delta percentages included.
C7_EveryPercentageInRange ==
    report.status = "ok" =>
        /\ \A x \in SharePercentages : 0 <= x /\ x <= 10000
        /\ \A x \in ChangePercentages : 0 <= x /\ x <= 1000

\* C7 (amended): every share percentage of the report (stock, discount,
\* window, launch-count, vendor, bulk-dominant) lies in [0, 100]; the
\* acceleration and price-delta percentages are signed changes, which
\* are never below -100 but may be negative or exceed 100.
C7_SharesInRange ==
    report.status = "ok" =>
        /\ \A x \in SharePercentages : 0 <= x /\ x <= 10000
        /\ \A x \in ChangePercentages : x >= -1000

\* A report whose launch acceleration exceeds 100 percent.
C7_Witness ==
    /\ report.status = "ok"
    /\ report.launch_timeline.kind = "full"
    /\ \E x \in ChangePercentages : x > 1000
    /\ \E x \in SharePercentages : x > 0

----------------------------------------------------------------------------
(* Properties of compute_new_vs_old_and_updates (SpecBulk) *)

\* The number of meaningful updates of the Record Set and the largest
\* number of them that fall on one UTC calendar day.
MeaningfulDayCounts ==
    LET mu == MeaningfulUpdates(products)
        days == {bucket_day(mu[i]) : i \in DOMAIN mu}
        per == [d \in days |-> Cardinality({i \in DOMAIN mu : bucket_day(mu[i]) = d})]
    IN  [n |-> Len(mu),
         top |-> IF days = {} THEN 0
                 ELSE CHOOSE c \in {per[d] : d \in days} :
                          \A d \in days : per[d] <= c,
         top_days |-> {d \in days : \A e \in days : per[e] <= per[d]}]

C4_OrganicSetIsRemainder ==
    pack.kind = "full" =>
        LET ua == pack.update_activity
            mu == MeaningfulUpdates(products)
            c == MeaningfulDayCounts
            rest == Filter(mu, LAMBDA d : bucket_day(d) \notin c.top_days)
            applied == ua.bulk_update_flag /\ Len(rest) >= 10
            organic == IF applied THEN rest ELSE mu
            since(k) == Cardinality({i \in DOMAIN organic :
                                        organic[i] >= now - Days(k)})
        IN  /\ ua.bulk_filter_applied = applied
            /\ OrganicUpdates(mu).filtered_updates = organic
            /\ ua.organic_update_count = Len(organic)
            /\ ua.updated_30 = since(30)
            /\ ua.updated_90 = since(90)
            /\ ua.updated_180 = since(180)

\* 40 meaningful updates, 30 of them on one day: the filter is applied
\* and 10 organic updates remain.
C4_Witness ==
    /\ pack.kind = "full"
    /\ pack.update_activity.meaningful_update_count = 40
    /\ pack.update_activity.bulk_update_flag
    /\ pack.update_activity.bulk_filter_applied
    /\ pack.update_activity.organic_update_count = 10

----------------------------------------------------------------------------
(* Properties of the /generate pipeline (SpecGen) *)

\* C11: every upstream fetch failure (non-JSON response, 403/429 block,
\* non-200 status) on any page is surfaced as the "no data" error before
\* analyze_products is invoked: analyze_products is never called on a run
\* in which a page request failed.
C11_FailedFetchNeverAnalyzed ==
    gen.pc = "done" /\ gen.failure # "none" =>
        ~gen.analyzed /\ gen.outcome = "no_data"

NoRepeat(s) == \A i, j \in DOMAIN s : s[i] = s[j] => i = j

\* C12: in the report generate returns, confidence_notes contains each of
\* the four provenance notes, and no sentence occurs more than once in
\* confidence_notes or in takeaways.
C12_NotesCompleteAndUnique ==
    gen.pc = "done" /\ gen.outcome = "report" =>
        /\ Range(extra_notes) \subseteq Range(gen.insights.confidence_notes)
        /\ NoRepeat(gen.insights.confidence_notes)
        /\ NoRepeat(gen.insights.takeaways)

\* A report of more than one record, with takeaways and with notes of
\* analyze_products ahead of the provenance notes.
C12_Witness ==
    /\ gen.pc = "done" /\ gen.outcome = "report"
    /\ Len(gen.fetched) > 1
    /\ gen.insights.takeaways # <<>>
    /\ Len(gen.insights.confidence_notes) > Len(extra_notes)

----------------------------------------------------------------------------
(* Properties of the lists of the report (Spec) *)

\* The record a list entry was projected from: the first record of the
\* Record Set with the entry's title (equal records have equal keys).
PosOf(entry) ==
    CHOOSE i \in DOMAIN products :
        /\ products[i].title = entry.title
        /\ \A j \in 1..(i - 1) : products[j].title # entry.title

\* An Optional ranking key as a pair: present keys above absent ones.
RankOf(opt) == IF IsNone(opt) THEN <<0, 0>> ELSE <<1, Val(opt)>>

RankGE(a, b) == a[1] > b[1] \/ (a[1] = b[1] /\ a[2] >= b[2])

\* At most TOP_N entries, descending by key, equal keys in the order of
\* the Record Set.
RankedList(list, Key(_)) ==
    /\ Len(list) <= TOP_N
    /\ \A a, b \in DOMAIN list :
           a < b =>
               LET ka == RankOf(Key(products[PosOf(list[a])]))
                   kb == RankOf(Key(products[PosOf(list[b])]))
               IN  /\ RankGE(ka, kb)
                   /\ ka = kb => PosOf(list[a]) <= PosOf(list[b])

\* The discount of a record as the specification defines it: present iff
\* compare_at_min > price_min > 0.
DefinedDiscount(p) ==
    LET pr == safe_float(p.price_min)
        ca == safe_float(p.compare_at_min)
    IN  IF ~IsNone(pr) /\ ~IsNone(ca) /\ Val(ca) > Val(pr) /\ Val(pr) > 0
        THEN Some(RoundDiv(10000 * (Val(ca) - Val(pr)), Val(ca)))
        ELSE None

C13_ListsOrdered ==
    report.status = "ok" =>
        /\ RankedList(report.lists.top_expensive,
                      LAMBDA p : safe_float(p.price_min))
        /\ RankedList(report.lists.top_discounts, DefinedDiscount)
        /\ RankedList(report.lists.newest_products, created_dt)
        /\ RankedList(report.lists.recently_updated, updated_dt)

\* C13: each of the four lists has at most 10 entries, is in descending
\* order of its ranking key with equal keys in Record Set order, and
\* top_discounts contains only records for which a discount is defined
\* (compare_at_min > price_min > 0).
C13_ListsRankedAndDiscountsDefined ==
    /\ C13_ListsOrdered
    /\ report.status = "ok" =>
           \A k \in DOMAIN report.lists.top_discounts :
               ~IsNone(DefinedDiscount(
                    products[PosOf(report.lists.top_discounts[k])]))

\* C14: recently_updated ranks by organic update: every entry is a record
\* whose update is meaningful (more than 6 hours from creation) and was
\* not removed by the bulk-spike filter; a record with no update instant,
\* with creation noise or on a filtered dominant day never appears.
C14_RecentlyUpdatedOnlyOrganic ==
    report.status = "ok" =>
        \A k \in DOMAIN report.lists.recently_updated :
            LET p == products[PosOf(report.lists.recently_updated[k])]
                ua == report.comparisons.update_activity
            IN  /\ ~IsNone(meaningful_update_dt(p))
                /\ ua.bulk_filter_applied =>
                       Some(bucket_day(Val(updated_dt(p)))) # ua.bulk_update_bucket

\* C15: in new_vs_old.created each window count is the number of records
\* whose creation instant (created_at if parsable, else published_at) is
\* on or after the cutoff, missing is the number of records with no
\* creation instant, and the counts equal
\* comparisons.new_vs_old.created_30/90/180.  (While now = Now0 the report
\* was computed at the current instant.)
C15_CreatedWindowsUseCreationInstant ==
    report.status = "ok" /\ now = Now0 =>
        LET since(k) == Cardinality({i \in DOMAIN products :
                            /\ ~IsNone(created_dt(products[i]))
                            /\ Val(created_dt(products[i])) >= now - Days(k)})
            created == report.new_vs_old.created
            cmp == report.comparisons.new_vs_old
        IN  /\ created.d30.count = since(30)
            /\ created.d90.count = since(90)
            /\ created.d180.count = since(180)
            /\ created.missing = Cardinality({i \in DOMAIN products :
                                      IsNone(created_dt(products[i]))})
            /\ created.d30.count = cmp.created_30
            /\ created.d90.count = cmp.created_90
            /\ created.d180.count = cmp.created_180

----------------------------------------------------------------------------
(* Properties of price_bucket, quantile and the pricing section            *)
(* (SpecPricing)                                                           *)

\* The bucket of a positive price by its half-open interval [lower, upper).
BucketByInterval(price) ==
    IF price < 2500 THEN "<$25"
    ELSE IF 2500 <= price /\ price < 5000 THEN "$25-$49"
    ELSE IF 5000 <= price /\ price < 10000 THEN "$50-$99"
    ELSE IF 10000 <= price /\ price < 20000 THEN "$100-$199"
    ELSE IF 20000 <= price /\ price < 30000 THEN "$200-$299"
    ELSE IF 30000 <= price /\ price < 50000 THEN "$300-$499"
    ELSE "$500+"

\* C16: price_bucket maps every positive price to the one bucket whose
\* half-open interval [lower, upper) holds it (24.99 gives "<$25", 25.00
\* gives "$25-$49", 500.00 gives "$500+"), and the counts of the histogram
\* sum to pricing.count, the number of records with a positive price.
C16_BucketsHalfOpenAndSumToCount ==
    /\ call.fn = "price_bucket" =>
           /\ call.ret = BucketByInterval(call.args[1])
           /\ Cardinality({k \in DOMAIN bucket_order :
                               bucket_order[k] = call.ret}) = 1
    /\ call.fn = "pricing" =>
           LET ps == call.args[1]
               positive == {i \in DOMAIN ps :
                               /\ ~IsNone(safe_float(ps[i].price_min))
                               /\ Val(safe_float(ps[i].price_min)) > 0}
               buckets == call.ret.price_buckets.buckets
               of(label) == {i \in positive :
                   BucketByInterval(Val(safe_float(ps[i].price_min))) = label}
           IN  /\ call.ret.count = Cardinality(positive)
               /\ call.ret.price_buckets.bucket_order = bucket_order
               /\ \A b \in buckets :
                      b[1] \in Range(bucket_order) /\ b[2] = Cardinality(of(b[1]))
               /\ \A label \in Range(bucket_order) :
                      of(label) # {} => \E b \in buckets : b[1] = label
               /\ \A b, c \in buckets : b[1] = c[1] => b = c
               /\ call.ret.count =
                      SumSeq([k \in DOMAIN bucket_order |->
                                 Cardinality(of(bucket_order[k]))])

\* The pricing section on prices 24.99, 25.00 and 0: two buckets of one
\* record each, the zero price in none.
C16_Witness ==
    /\ call.fn = "pricing"
    /\ Len(call.args[1]) = 3
    /\ {call.args[1][i].price_min : i \in 1..3}
           = {PrStr(2499), PrNum(2500), PrNum(0)}
    /\ call.ret.price_buckets.buckets = {<<"<$25", 1>>, <<"$25-$49", 1>>}
    /\ call.ret.count = 2

\* The sorted rearrangement of a sequence of integers.
Ascending(values) ==
    CHOOSE ys \in [DOMAIN values -> Range(values)] :
        /\ \A i, j \in DOMAIN ys : i <= j => ys[i] <= ys[j]
        /\ \A v \in Range(values) :
               Cardinality({i \in DOMAIN ys : ys[i] = v})
                   = Cardinality({i \in DOMAIN values : values[i] = v})

\* Four times the linear interpolation at position (n - 1) * quarters / 4
\* of the sorted values: lower neighbour plus the fraction of the gap.
Interpolated4(values, quarters) ==
    LET ys == Ascending(values)
        pos4 == (Len(values) - 1) * quarters
        lo == pos4 \div 4
        frac4 == pos4 % 4
        hi == IF frac4 = 0 THEN lo ELSE lo + 1
    IN  4 * ys[lo + 1] + frac4 * (ys[hi + 1] - ys[lo + 1])

\* C17: quantile returns undefined for empty input and otherwise the
\* linear interpolation between the two neighbours of position (n-1)*q in
\* the sorted values ([1,2,3,4] gives p25 = 1.75 and p75 = 3.25); in the
\* pricing section min <= p25 <= median <= p75 <= max for every non-empty
\* input.
C17_QuantileInterpolates ==
    /\ call.fn = "quantile" =>
           LET values == call.args[1]
               quarters == call.args[2]
           IN  /\ values = <<>> => IsNone(call.ret)
               /\ values # <<>> =>
                      call.ret = Some(Interpolated4(values, quarters))
               /\ values = <<100, 200, 300, 400>> /\ quarters = 1 =>
                      call.ret = Some(4 * 175)
               /\ values = <<100, 200, 300, 400>> /\ quarters = 3 =>
                      call.ret = Some(4 * 325)
    /\ call.fn = "pricing" =>
           IF call.ret.count = 0
           THEN IsNone(call.ret.p25) /\ IsNone(call.ret.p75)
           ELSE /\ Val(call.ret.min) <= Val(call.ret.p25)
                /\ Val(call.ret.p25) <= Val(call.ret.median)
                /\ Val(call.ret.median) <= Val(call.ret.p75)
                /\ Val(call.ret.p75) <= Val(call.ret.max)

\* quantile([4, 1, 3, 2], 0.25) = 1.75: the interpolation of the sorted
\* values, one quarter of the way from 1 to 2.
C17_Witness ==
    /\ call.fn = "quantile"
    /\ call.args = <<(<<400, 100, 300, 200>>), 1>>
    /\ call.ret = Some(700)

----------------------------------------------------------------------------
(* Properties of score_weighted and the positioning scores (SpecScores)    *)

\* C18: score_weighted drops the pairs whose value is undefined, returns 0
\* when none remains, and otherwise returns
\* round(sum(clamp(value, 0, 100) * weight) / sum(weight)), clamped to
\* [0, 100]; every positioning score is an integer in [0, 100].
C18_ScoreIsClampedWeightedMean ==
    /\ call.fn = "score_weighted" =>
           LET parts == call.args[1]
               kept == {i \in DOMAIN parts : ~IsNone(parts[i][1])}
               \* the value in quarters, clamped to [0, 100]
               clamped(i) == Max2(0, Min2(400, Val(parts[i][1])[1]))
               weighted == SumSeq([i \in DOMAIN parts |->
                              IF i \in kept THEN clamped(i) * parts[i][2] ELSE 0])
               weight == SumSeq([i \in DOMAIN parts |->
                              IF i \in kept THEN parts[i][2] ELSE 0])
           IN  /\ kept = {} => call.ret = 0
               /\ kept # {} =>
                      call.ret = Max2(0, Min2(100, RoundDiv(weighted, 4 * weight)))
               /\ call.ret \in 0..100
    /\ call.fn = "positioning" =>
           /\ call.ret.promo_intensity.score \in 0..100
           /\ call.ret.launch_velocity.score \in 0..100
           /\ call.ret.catalog_complexity.score \in 0..100

\* score_weighted([(150, 0.6), (None, 0.4)]) = 100: the undefined value is
\* dropped and 150 contributes as 100.
C18_Witness ==
    /\ call.fn = "score_weighted"
    /\ call.args[1] = <<(<<Some(<<600, 4>>), 60>>), (<<None, 40>>)>>
    /\ call.ret = 100

\* C19: the catalog-complexity score blends the price-spread sub-score
\* clamp((max - min) / 300 * 100) with weight 0.35 whenever a positive
\* price exists, the case max = min (sub-score 0) included; the sub-score
\* is dropped only when no record has a positive price.
C19_SpreadBlendedWheneverPriced ==
    report.status = "ok" =>
        LET pos == PositivePrices(products)
            spread == IF pos = <<>> THEN None
                      ELSE Some(clamp(<<MaxSeq(pos) - MinSeq(pos), 300>>))
        IN  report.positioning.catalog_complexity.score =
                score_weighted(<< <<SizeScore(products), 45>>,
                                  <<spread, 35>>,
                                  <<VariantsScore(products), 20>> >>)

----------------------------------------------------------------------------
(* Properties of the launch trend (SpecTrend) *)

\* C20: with velocity = count / (window days / 30), the trend is
\* "Accelerating" exactly when the 30-day velocity exceeds the 90-day
\* velocity by more than 15%, "Decelerating" exactly when it is lower by
\* more than 15%, "Steady" otherwise; when the 90-day velocity is zero the
\* acceleration is null and the trend is "Steady".
\* (v30 = count_30d, v90 = count_90d / 3: v30 > 1.15 * v90 iff
\* 60 * count_30d > 23 * count_90d, v30 < 0.85 * v90 iff
\* 60 * count_30d < 17 * count_90d.)
C20_TrendByFifteenPercent ==
    call.fn = "launch_trend" =>
        LET count_30d == call.args[1]
            count_90d == call.args[2]
        IN  /\ call.ret.trend = "Accelerating" <=>
                   count_90d > 0 /\ 60 * count_30d > 23 * count_90d
            /\ call.ret.trend = "Decelerating" <=>
                   count_90d > 0 /\ 60 * count_30d < 17 * count_90d
            /\ call.ret.trend \in {"Accelerating", "Decelerating", "Steady"}
            /\ count_90d = 0 =>
                   IsNone(call.ret.pct_30d_vs_90d) /\ call.ret.trend = "Steady"

----------------------------------------------------------------------------
(* Properties of the launch timeline (SpecLaunch) *)

\* C21: peak_months lists at most 3 calendar months of the trailing year,
\* in non-increasing order of launch count, months with equal counts in
\* chronological order (earliest first).
C21_PeakMonthsOrdered ==
    call.fn = "analyze_launch_timeline" /\ call.ret.kind = "full" =>
        LET ps == call.args[1]
            peak == call.ret.monthly_distribution.peak_months
            \* the records launched in month m of the trailing year
            launched(m) == {i \in DOMAIN ps :
                               /\ ~IsNone(created_dt(ps[i]))
                               /\ Val(created_dt(ps[i])) >= now - Days(365)
                               /\ month_key(Val(created_dt(ps[i]))) = m}
            months == {m \in 0..35 : launched(m) # {}}
        IN  /\ Len(peak) <= 3
            /\ Len(peak) = Min2(3, Cardinality(months))
            /\ \A k \in DOMAIN peak :
                   /\ peak[k].key \in months
                   /\ peak[k].count = Cardinality(launched(peak[k].key))
            /\ \A a, b \in DOMAIN peak :
                   a < b =>
                       /\ peak[a].count >= peak[b].count
                       /\ peak[a].count = peak[b].count => peak[a].key < peak[b].key
            /\ \A m \in months :
                   (\A k \in DOMAIN peak : peak[k].key # m) =>
                       \A k \in DOMAIN peak :
                           Cardinality(launched(m)) <= peak[k].count

\* Four records of four different months, handed over newest first: the
\* three earliest months are listed, in chronological order.
C21_Witness ==
    /\ call.fn = "analyze_launch_timeline"
    /\ Len(call.args[1]) = 4
    /\ \A i \in 1..3 :
           Val(created_dt(call.args[1][i])) > Val(created_dt(call.args[1][i + 1]))
    /\ call.ret.kind = "full"
    /\ Len(call.ret.monthly_distribution.peak_months) = 3
    /\ \A k \in 1..3 : call.ret.monthly_distribution.peak_months[k].count = 1
    /\ call.ret.monthly_distribution.peak_months[1].key
           < call.ret.monthly_distribution.peak_months[3].key

----------------------------------------------------------------------------
(* Properties of the Record Set across a call (SpecFrame) *)

----------------------------------------------------------------------------
(* Further properties of the report (Spec) *)

\* C23: in the report on a non-empty Record Set, a confidence note states
\* the zero-price count whenever some record has price 0, the "no usable
\* pricing" note is present whenever no record has a strictly positive
\* price, and catalog.total_products counts every record.
C23_ZeroAndMissingPricesSurfaced ==
    report.status = "ok" /\ products # <<>> =>
        LET zero == Cardinality({i \in DOMAIN products :
                        safe_float(products[i].price_min) = Some(0)})
            notes == Range(report.confidence_notes)
        IN  /\ zero > 0 =>
                   Sentence("products had a $0 price and were excluded from price statistics",
                            <<zero>>, "") \in notes
            /\ PositivePrices(products) = <<>> =>
                   Sentence("No usable pricing was found in the public products.json feed",
                            <<>>, "") \in notes
            /\ report.catalog.total_products = Len(products)

\* The end-to-end scenario: 40 records with price 50 and compare-at 100,
\* 60 records with price 50 and no compare-at, give discounted_count 40,
\* discounted_pct 40.0, median_discount_pct 50.0 and
\* full_price_median_price 50.0.
C24_Scenario ==
    LET sale == [Base EXCEPT !.price_min = PrNum(5000),
                             !.compare_at_min = PrNum(10000)]
        plain == [Base EXCEPT !.price_min = PrNum(5000)]
        ps == Repeat(sale, 40) \o Repeat(plain, 60)
        cmp == Comparisons(ps, compute_new_vs_old_and_updates(ps, now))
    IN  /\ DiscountsSection(ps).discounted_count = 40
        /\ DiscountsSection(ps).discounted_pct = 4000
        /\ DiscountsSection(ps).median_discount_pct = Some(5000)
        /\ cmp.discounted_vs_full_price.discounted_count = 40
        /\ cmp.discounted_vs_full_price.discounted_pct = 4000
        /\ cmp.discounted_vs_full_price.full_price_median_price = Some(5000)

\* C24: in the discounted-vs-full-price comparison every record is in
\* exactly one class: discounted (its discount is defined), full price (a
\* parsable price, no discount) or without a parsable price; the three
\* counts add up to the total, and the 40 / 60 scenario gives the stated
\* figures.
C24_ThreeClassesOfRecords ==
    report.status = "ok" =>
        LET discounted == {i \in DOMAIN products :
                              ~IsNone(DefinedDiscount(products[i]))}
            unpriced == {i \in DOMAIN products :
                            IsNone(safe_float(products[i].price_min))}
            full == (DOMAIN products \ unpriced) \ discounted
            cmp == report.comparisons.discounted_vs_full_price
        IN  /\ cmp.discounted_count = Cardinality(discounted)
            /\ Len(DiscountedPrices(products)) = Cardinality(discounted)
            /\ Len(FullPrices(products)) = Cardinality(full)
            /\ Len(DiscountedPrices(products)) + Len(FullPrices(products))
                   + Cardinality(unpriced) = Len(products)
            /\ C24_Scenario

----------------------------------------------------------------------------
(* Properties of fetch_products_shopify (SpecFetchFair) *)

\* The pages asked for are 1, 2, ... in order, at most MAX_PAGES of them;
\* only the last answer can be a failure or an empty page; what is
\* returned is the products of the pages before it, cut to max_products.
C25_FetchBounded ==
    gen.pc \in {"fetch", "returned", "raised"} =>
        LET n == Len(gen.asked)
            ended(k) == \/ gen.answers[k] # "ok"
                        \/ Catalog_page(gen.store, k) = <<>>
            RECURSIVE upto(_)
            upto(k) == IF k = 0 THEN <<>>
                       ELSE upto(k - 1) \o Catalog_page(gen.store, k)
            good == IF n > 0 /\ ended(n) THEN n - 1 ELSE n
        IN  /\ n <= MAX_PAGES
            /\ gen.asked = [k \in 1..n |-> k]
            /\ \A k \in 1..(n - 1) : ~ended(k)
            /\ gen.pc = "fetch" => n < MAX_PAGES /\ (n > 0 => ~ended(n))
            /\ gen.pc = "returned" =>
                   /\ gen.products =
                          IF IsNone(gen.max_products) THEN upto(good)
                          ELSE Take(upto(good), Val(gen.max_products))
                   /\ \/ n > 0 /\ ended(n)
                      \/ n = MAX_PAGES
                      \/ /\ ~IsNone(gen.max_products)
                         /\ Len(upto(n)) >= Val(gen.max_products)

\* C25: fetch_products_shopify always terminates, after at most 10 page
\* requests (pages 1..10 in increasing order, each once); it stops at the
\* first page that is non-JSON, blocked, non-200 or empty and returns
\* exactly the products of the earlier pages, truncated to max_products
\* when that cap is given.
C25_FetchTerminates ==
    /\ []C25_FetchBounded
    /\ (gen.pc = "fetch") ~> (gen.pc \in {"returned", "raised"})

\* A fetch with a cap of 5 that asked for five pages and returned five
\* products.
C25_Witness ==
    /\ gen.pc = "returned"
    /\ gen.max_products = Some(5)
    /\ Len(gen.asked) = 5
    /\ Len(gen.products) = 5

----------------------------------------------------------------------------
(* Consistency of the update_activity fields (SpecBulk) *)

\* C26: in every result of compute_new_vs_old_and_updates for a non-empty
\* Record Set, bulk_filter_applied implies bulk_update_flag;
\* organic_update_count <= meaningful_update_count, with equality whenever
\* bulk_filter_applied is false; organic_update_count >= 10 whenever
\* bulk_filter_applied is true; and for each window the organic count
\* updated_N <= the raw count updated_N_raw <= total.
C26_UpdateFieldsConsistent ==
    pack.kind = "full" =>
        LET ua == pack.update_activity
            total == Len(products)
        IN  /\ ua.bulk_filter_applied => ua.bulk_update_flag
            /\ ua.organic_update_count <= ua.meaningful_update_count
            /\ ~ua.bulk_filter_applied =>
                   ua.organic_update_count = ua.meaningful_update_count
            /\ ua.bulk_filter_applied => ua.organic_update_count >= 10
            /\ ua.updated_30 <= ua.updated_30_raw /\ ua.updated_30_raw <= total
            /\ ua.updated_90 <= ua.updated_90_raw /\ ua.updated_90_raw <= total
            /\ ua.updated_180 <= ua.updated_180_raw
            /\ ua.updated_180_raw <= total

\* The filter was applied: fewer organic than meaningful updates, and a
\* window whose organic count is below its raw count, which is below the
\* number of records.
C26_Witness ==
    /\ pack.kind = "full"
    /\ pack.update_activity.bulk_filter_applied
    /\ pack.update_activity.organic_update_count
           < pack.update_activity.meaningful_update_count
    /\ pack.update_activity.updated_30 < pack.update_activity.updated_30_raw
    /\ pack.update_activity.updated_30_raw < Len(products)

----------------------------------------------------------------------------
(* Agreement between the sections of one report (Spec) *)

\* C27: the report is internally consistent about discounts: for every
\* Record Set, discounts.discounted_count equals
\* comparisons.discounted_vs_full_price.discounted_count and the two
\* discounted_pct values are equal, records whose price is 0 or negative
\* included.
C27_DiscountSectionsAgree ==
    report.status = "ok" =>
        /\ report.discounts.discounted_count
               = report.comparisons.discounted_vs_full_price.discounted_count
        /\ report.discounts.discounted_pct
               = report.comparisons.discounted_vs_full_price.discounted_pct

\* C28: the catalog median price is the same value wherever the report
\* states it: pricing.median, comparisons.new_vs_old.catalog_median_price
\* and launch_timeline.price_positioning.catalog_median are equal, all
\* being the median over the records with a strictly positive parsable
\* price_min (zero-priced records are excluded from each).
C28_CatalogMedianAgrees ==
    report.status = "ok" =>
        LET positive_median == RoundedMedian(PositivePrices(products))
        IN  /\ report.pricing.median = positive_median
            /\ report.comparisons.new_vs_old.catalog_median_price
                   = positive_median
            /\ report.launch_timeline.kind = "full" =>
                   report.launch_timeline.price_positioning.catalog_median
                       = positive_median

----------------------------------------------------------------------------
(* Window counts (SpecWindows) *)

\* C29: window counts are monotone in the window length: launch_counts
\* 7d <= 30d <= 90d <= 180d <= 1yr <= number of dated records <= total,
\* created_30 <= created_90 <= created_180, and updated_30 <= updated_90
\* <= updated_180 (a record inside a shorter window is inside every
\* longer one).
C29_WindowCountsMonotone ==
    /\ (call.fn = "analyze_launch_timeline" /\ call.ret.kind = "full") =>
           LET lc == call.ret.launch_counts
               ps == call.args[1]
           IN  /\ lc.d7.count <= lc.d30.count
               /\ lc.d30.count <= lc.d90.count
               /\ lc.d90.count <= lc.d180.count
               /\ lc.d180.count <= lc.y1.count
               /\ lc.y1.count <= Len(DatedProducts(ps))
               /\ Len(DatedProducts(ps)) <= Len(ps)
    /\ (call.fn = "compute_new_vs_old_and_updates" /\ call.ret.kind = "full") =>
           LET nvo == call.ret.new_vs_old
               ua == call.ret.update_activity
           IN  /\ nvo.created_30 <= nvo.created_90
               /\ nvo.created_90 <= nvo.created_180
               /\ ua.updated_30 <= ua.updated_90
               /\ ua.updated_90 <= ua.updated_180

\* A launch timeline whose counts grow with the window: one record inside
\* 7d, a second inside 90d only, a third inside 1yr only.
C29_Witness ==
    /\ call.fn = "analyze_launch_timeline"
    /\ call.ret.kind = "full"
    /\ call.ret.launch_counts.d7.count = 1
    /\ call.ret.launch_counts.d30.count = 1
    /\ call.ret.launch_counts.d90.count = 2
    /\ call.ret.launch_counts.d180.count = 2
    /\ call.ret.launch_counts.y1.count = 3

----------------------------------------------------------------------------
(* Properties of the /buy handler (SpecBuy) *)

\* The state of a /buy request: check_store has tried the candidates in
\* order, the typed host first, and stopped at the first that succeeded;
\* Stripe was called only if a candidate succeeded; a request whose URL is
\* invalid or whose candidates all failed is answered with an error.
C30_ProbedBeforeCheckout ==
    gen.pc \in {"probe", "create", "replied"} =>
        LET n == Len(gen.attempts)
            base == normalize_store_url(gen.store_url)
            succeeded == \E i \in 1..n : gen.attempts[i].ok
        IN  /\ n <= Len(gen.candidates)
            /\ \A i \in 1..n : gen.attempts[i].base_url = gen.candidates[i]
            /\ \A i \in 1..(n - 1) : ~gen.attempts[i].ok
            /\ ~IsNone(base) =>
                   /\ gen.candidates[1] = Val(base)
                   /\ Len(gen.candidates) = 2
                   /\ gen.candidates[2] # gen.candidates[1]
            /\ IsNone(base) => n = 0
            /\ gen.check.ok =>
                   /\ succeeded
                   /\ gen.check.base_url = gen.attempts[n].base_url
            /\ gen.pc = "create" => gen.check.ok
            /\ gen.stripe_calls # <<>> => gen.check.ok /\ Len(gen.stripe_calls) = 1
            /\ (gen.pc = "replied" /\ ~succeeded) =>
                   /\ gen.stripe_calls = <<>>
                   /\ gen.response.status \in {"400", "500"}
            /\ (gen.pc = "replied" /\ IsNone(base)) =>
                   gen.response.status = "400"
            /\ (gen.pc = "replied" /\ n = 2 /\ ~succeeded) =>
                   gen.response = Reply("400", "Store not supported")

\* C30: in the /buy handler a Stripe checkout session is created only
\* after the store probe has succeeded: when check_store does not return
\* ok (the typed host and its www / apex alternate both fail) or the URL is
\* invalid, the handler returns an error and stripe.checkout.Session.create
\* is never called; check_store tries the typed host first and returns the
\* first candidate that succeeds.
C30_CheckoutOnlyAfterProbe ==
    /\ []C30_ProbedBeforeCheckout
    /\ [][(gen'.pc \in {"create", "replied"} /\ gen.pc \in {"probe", "create"}
              /\ gen'.stripe_calls # gen.stripe_calls)
            => (gen.pc = "create" /\ gen.check.ok
                  /\ gen.attempts[Len(gen.attempts)].ok)]_vars

\* The typed host failed, the alternate succeeded, and the session was
\* created.
C30_Witness ==
    /\ gen.pc = "replied"
    /\ Len(gen.attempts) = 2
    /\ ~gen.attempts[1].ok
    /\ gen.attempts[2].ok
    /\ gen.check.ok
    /\ gen.check.base_url = <<"https://", "www.", "shop.com">>
    /\ Len(gen.stripe_calls) = 1
    /\ gen.response.status = "200"

====
